---- MODULE Spec2Model ----
(***************************************************************************)
(* A model of the moving-object detection and trajectory-fitting code of   *)
(* src/main/moving_detection.py and src/main/moving_prediction.py.         *)
(*                                                                         *)
(* Every component (FrameDifference, region_growing, ViBE, DEVB, RGBD_MoG, *)
(* Fast_RGBD_MoG, find_functions) has its own variables and its own        *)
(* specification; while one component runs, the variables of the others    *)
(* rest at an idle value.                                                  *)
(*                                                                         *)
(* Real-valued quantities are scaled to integers, the unit being stated    *)
(* with each component.                                                    *)
(***************************************************************************)
EXTENDS Integers, Sequences, FiniteSets, TLC

VARIABLES
    \* FrameDifference (moving_detection.py:29-91)
    fd_current_depth, fd_current_rgb, fd_previous_depth, fd_previous_rgb,
    fd_ret,            \* <<m>>: the last call was subtraction_mask() and returned m; else <<>>
    fd_supplied_depth, \* history: the depth frames supplied so far, the last two kept
    fd_supplied_rgb,   \* history: the colour frames supplied so far, the last two kept
    \* region_growing (moving_detection.py:920-966)
    rg_movement_mask, rg_current_depth,  \* the arguments of the call
    rg_significant,                      \* argument significant_number_of_points
    rg_ret,            \* <<r>>: region_growing returned, r its result and final locals; else <<>>
    \* ViBE (moving_detection.py:94-222)
    vibe_current_rgb, vibe_background, vibe_mask,
    vibe_threshold_lambda,               \* constructor argument threshold_lambda
    vibe_ret,          \* <<[pixel, value]>>: the last call was in_background(pixel); else <<>>
    vibe_call,         \* <<[pixel, in_background, own, nb]>>: set_pixel(pixel) was called, its
                       \* test gave in_background, its chance draws own and nb; else <<>>
    \* RGBD_MoG (moving_detection.py:516-686)
    rgbd_current_yuv, rgbd_current_depth, rgbd_gaussians, rgbd_mask,
    rgbd_matching,     \* the local matching_criterion of each pixel in the last set_mask
    \* Fast_RGBD_MoG (moving_detection.py:689-882)
    fast_current_yuv, fast_current_depth, fast_mean, fast_variance, fast_weight,
    fast_depth_observations,
    fast_ret,          \* <<mask>>: the mask returned by the last get_mask; else <<>>
    mog_calls,         \* number of frames fed to the mixture models after construction
    \* DEVB (moving_detection.py:225-375)
    devb_current_rgb, devb_current_depth, devb_background, devb_depth_background, devb_mask,
    devb_call,         \* <<[pixel, in_background, own, nb]>>: set_pixel(pixel) was called,
                       \* its colour test gave in_background, own and nb are its two
                       \* time_factor_chance draws; else <<>>
    \* find_functions (moving_prediction.py:131-163)
    ff_points,         \* points.shape[0], the number of observations
    ff_i,              \* the next value of the loop variable i
    ff_fitted,         \* the degrees passed to trajectory_poly_fitting so far
    ff_has_nan,        \* np.sum(np.isnan(y_)) > 0 in the last iteration
    ff_mean_error,     \* <<mean_error>> once the local is assigned; else <<>>
    ff_found_functions,    \* the degrees i with a key "polyfit_model" + str(i)
    ff_printed,        \* 'function wasn't found' was printed
    ff_pc,             \* "loop" inside find_functions, "done" after its return
    \* region_growing, one outer iteration at a time (moving_detection.py:936-966)
    rgs_movement_mask, rgs_current_depth,  \* the arguments of the call
    rgs_significant,                       \* argument significant_number_of_points
    rgs_loop,          \* the locals masks, seeds, done and the record of the regions grown
    rgs_iterations,    \* the number of iterations of the outer loop run so far
    rgs_pc,            \* "loop" at line 940, "returned" after line 966
    \* the candidate functions and their consumers (moving_prediction.py:175-258)
    gf_found_functions,    \* the dict found_functions: its candidates in insertion order
    gf_produced,       \* history: found_functions as find_functions returned it
    gf_ret,            \* <<r>>: the last call, r.op its name and r its outcome; else <<>>
    gf_calls,          \* number of calls made on found_functions
    \* MovementFunctions (moving_prediction.py:11-48)
    mf_functions,      \* history: the argument functions of the constructor
    mf_functions_coefficients, mf_covariance_matrices, mf_standard_deviations, mf_weights,
    mf_ret,            \* <<r>>: the last query, r.op its name and r its result; else <<>>
    \* combine_results (moving_prediction.py:616-623)
    cr_m, cr_sd, cr_w, \* the arguments: per axis the means, standard deviations, weights
    cr_ret,            \* <<r>>: combine_results returned r; else <<>>
    \* find_points_in_radius (moving_prediction.py:657-660)
    fp_points, fp_center, fp_radius,     \* the arguments
    fp_ret,            \* <<r>>: find_points_in_radius returned r; else <<>>
    \* PointsVelocities (moving_prediction.py:51-92): the nine fields
    pv_points_idx, pv_points_linear_velocity, pv_points_linear_sd,
    pv_points_linear_weight, pv_points_linear_angular_velocity,
    pv_points_linear_angular_sd, pv_points_linear_angular_weight,
    pv_radii, pv_radii_length,
    pv_calls,          \* ghost: the arguments of the add_points calls so far
    \* get_random_neighbour (moving_detection.py:904-917)
    grn_index, grn_resolution,           \* the arguments index and resolution
    grn_neighbour_index,                 \* the local neighbour_index
    grn_pc,            \* "idle", "loop" at the test of line 915, "returned" after line 917
    \* RGB_MoG (moving_detection.py:377-513)
    rgbm_current_rgb, rgbm_gaussians, rgbm_mask,
    rgbm_matching,     \* <<m>> after set_mask, m the matching_criterion of each pixel
    \* RGBD_MoG.pixel_mask, the walk of the ranking (moving_detection.py:654-660)
    pm_gauss,          \* the weights and the ranking of the components of the pixel
    pm_ret,            \* <<r>> after the walk, r its locals color_reliability and threshold
    \* RGBD_MoG fed valid depth only: the history of pixel (0, 0)
    ro_missed,         \* the components that did not match in some set_mask call so far
    \* DEVB and the depth arrays of its caller (moving_detection.py:243-366)
    own_heap,          \* the depth arrays supplied to the detector, as they are now
    own_supplied,      \* the same arrays, as they were when supplied
    own_current_depth, \* the array __current_depth refers to: its position in own_heap
    own_depth_background, \* the array __depth_background refers to
    own_calls          \* number of calls made on the detector

fdVars == <<fd_current_depth, fd_current_rgb, fd_previous_depth, fd_previous_rgb,
            fd_ret, fd_supplied_depth, fd_supplied_rgb>>

rgVars == <<rg_movement_mask, rg_current_depth, rg_significant, rg_ret>>

vibeVars == <<vibe_current_rgb, vibe_background, vibe_mask, vibe_threshold_lambda, vibe_ret,
              vibe_call>>

rgbdVars == <<rgbd_current_yuv, rgbd_current_depth, rgbd_gaussians, rgbd_mask, rgbd_matching>>

fastVars == <<fast_current_yuv, fast_current_depth, fast_mean, fast_variance, fast_weight,
              fast_depth_observations, fast_ret>>

mogVars == <<rgbdVars, fastVars, mog_calls>>

devbVars == <<devb_current_rgb, devb_current_depth, devb_background, devb_depth_background,
              devb_mask, devb_call>>

ffVars == <<ff_points, ff_i, ff_fitted, ff_has_nan, ff_mean_error, ff_found_functions,
            ff_printed, ff_pc>>

rgsVars == <<rgs_movement_mask, rgs_current_depth, rgs_significant, rgs_loop,
             rgs_iterations, rgs_pc>>

gfVars == <<gf_found_functions, gf_produced, gf_ret, gf_calls>>

mfVars == <<mf_functions, mf_functions_coefficients, mf_covariance_matrices, mf_standard_deviations, mf_weights, mf_ret>>

crVars == <<cr_m, cr_sd, cr_w, cr_ret>>

fpVars == <<fp_points, fp_center, fp_radius, fp_ret>>

pvVars == <<pv_points_idx, pv_points_linear_velocity, pv_points_linear_sd, pv_points_linear_weight, pv_points_linear_angular_velocity, pv_points_linear_angular_sd, pv_points_linear_angular_weight, pv_radii, pv_radii_length, pv_calls>>

grnVars == <<grn_index, grn_resolution, grn_neighbour_index, grn_pc>>

rgbmVars == <<rgbm_current_rgb, rgbm_gaussians, rgbm_mask, rgbm_matching>>

pmVars == <<pm_gauss, pm_ret>>

roVars == <<ro_missed>>

ownVars == <<own_heap, own_supplied, own_current_depth, own_depth_background, own_calls>>

vars == <<fdVars, rgVars, vibeVars, mogVars, devbVars, ffVars, rgsVars, gfVars, mfVars, crVars, fpVars, pvVars, grnVars, rgbmVars, pmVars, roVars, ownVars>>

NoValue == "none"

FdIdle ==
    /\ fd_current_depth = NoValue
    /\ fd_current_rgb = NoValue
    /\ fd_previous_depth = NoValue
    /\ fd_previous_rgb = NoValue
    /\ fd_ret = NoValue
    /\ fd_supplied_depth = <<>>
    /\ fd_supplied_rgb = <<>>

RgIdle ==
    /\ rg_movement_mask = NoValue
    /\ rg_current_depth = NoValue
    /\ rg_significant = 0
    /\ rg_ret = <<>>

VibeIdle ==
    /\ vibe_current_rgb = NoValue
    /\ vibe_background = NoValue
    /\ vibe_mask = NoValue
    /\ vibe_threshold_lambda = 0
    /\ vibe_ret = <<>>
    /\ vibe_call = <<>>

RgbdIdle ==
    /\ rgbd_current_yuv = NoValue
    /\ rgbd_current_depth = NoValue
    /\ rgbd_gaussians = NoValue
    /\ rgbd_mask = NoValue
    /\ rgbd_matching = NoValue

FastIdle ==
    /\ fast_current_yuv = NoValue
    /\ fast_current_depth = NoValue
    /\ fast_mean = NoValue
    /\ fast_variance = NoValue
    /\ fast_weight = NoValue
    /\ fast_depth_observations = NoValue
    /\ fast_ret = <<>>

MogIdle == RgbdIdle /\ FastIdle /\ mog_calls = 0

DevbIdle ==
    /\ devb_current_rgb = NoValue
    /\ devb_current_depth = NoValue
    /\ devb_background = NoValue
    /\ devb_depth_background = NoValue
    /\ devb_mask = NoValue
    /\ devb_call = <<>>

FfIdle ==
    /\ ff_points = 0
    /\ ff_i = 0
    /\ ff_fitted = {}
    /\ ff_has_nan = FALSE
    /\ ff_mean_error = <<>>
    /\ ff_found_functions = {}
    /\ ff_printed = FALSE
    /\ ff_pc = "idle"

RgsIdle ==
    /\ rgs_movement_mask = <<>>
    /\ rgs_current_depth = <<>>
    /\ rgs_significant = 0
    /\ rgs_loop = [masks |-> <<>>, seeds |-> <<>>, done |-> <<>>, grown |-> <<>>,
                   roots |-> <<>>, visits |-> <<>>]
    /\ rgs_iterations = 0
    /\ rgs_pc = "idle"

GfIdle ==
    /\ gf_found_functions = <<>>
    /\ gf_produced = <<>>
    /\ gf_ret = <<>>
    /\ gf_calls = 0

MfIdle ==
    /\ mf_functions = <<>>
    /\ mf_functions_coefficients = <<>>
    /\ mf_covariance_matrices = <<>>
    /\ mf_standard_deviations = <<>>
    /\ mf_weights = <<>>
    /\ mf_ret = <<>>

CrIdle ==
    /\ cr_m = <<>>
    /\ cr_sd = <<>>
    /\ cr_w = <<>>
    /\ cr_ret = <<>>

FpIdle ==
    /\ fp_points = <<>>
    /\ fp_center = <<>>
    /\ fp_radius = 0
    /\ fp_ret = <<>>

PvIdle ==
    /\ pv_points_idx = <<>>
    /\ pv_points_linear_velocity = <<>>
    /\ pv_points_linear_sd = <<>>
    /\ pv_points_linear_weight = <<>>
    /\ pv_points_linear_angular_velocity = <<>>
    /\ pv_points_linear_angular_sd = <<>>
    /\ pv_points_linear_angular_weight = <<>>
    /\ pv_radii = <<>>
    /\ pv_radii_length = <<>>
    /\ pv_calls = <<>>

GrnIdle ==
    /\ grn_index = 0
    /\ grn_resolution = 0
    /\ grn_neighbour_index = 0
    /\ grn_pc = "idle"

RgbmIdle ==
    /\ rgbm_current_rgb = <<>>
    /\ rgbm_gaussians = <<>>
    /\ rgbm_mask = <<>>
    /\ rgbm_matching = <<>>

PmIdle ==
    /\ pm_gauss = <<>>
    /\ pm_ret = <<>>

RoIdle ==
    /\ ro_missed = {}

OwnIdle ==
    /\ own_heap = <<>>
    /\ own_supplied = <<>>
    /\ own_current_depth = 0
    /\ own_depth_background = 0
    /\ own_calls = 0

\* the components other than c rest at their idle value
Idle(c) ==
    /\ IF c # "fd" THEN FdIdle ELSE TRUE
    /\ IF c # "rg" THEN RgIdle ELSE TRUE
    /\ IF c # "vibe" THEN VibeIdle ELSE TRUE
    /\ IF c \notin {"mog", "ro"} THEN MogIdle ELSE TRUE
    /\ IF c \notin {"devb", "own"} THEN DevbIdle ELSE TRUE
    /\ IF c # "ff" THEN FfIdle ELSE TRUE
    /\ IF c # "rgs" THEN RgsIdle ELSE TRUE
    /\ IF c # "gf" THEN GfIdle ELSE TRUE
    /\ IF c # "mf" THEN MfIdle ELSE TRUE
    /\ IF c # "cr" THEN CrIdle ELSE TRUE
    /\ IF c # "fp" THEN FpIdle ELSE TRUE
    /\ IF c # "pv" THEN PvIdle ELSE TRUE
    /\ IF c # "grn" THEN GrnIdle ELSE TRUE
    /\ IF c # "rgbm" THEN RgbmIdle ELSE TRUE
    /\ IF c # "pm" THEN PmIdle ELSE TRUE
    /\ IF c # "ro" THEN RoIdle ELSE TRUE
    /\ IF c # "own" THEN OwnIdle ELSE TRUE

\* a step of component c leaves the other components alone
Rest(c) ==
    /\ IF c # "fd" THEN UNCHANGED fdVars ELSE TRUE
    /\ IF c # "rg" THEN UNCHANGED rgVars ELSE TRUE
    /\ IF c # "vibe" THEN UNCHANGED vibeVars ELSE TRUE
    /\ IF c \notin {"mog", "ro"} THEN UNCHANGED mogVars ELSE TRUE
    /\ IF c \notin {"devb", "own"} THEN UNCHANGED devbVars ELSE TRUE
    /\ IF c # "ff" THEN UNCHANGED ffVars ELSE TRUE
    /\ IF c # "rgs" THEN UNCHANGED rgsVars ELSE TRUE
    /\ IF c # "gf" THEN UNCHANGED gfVars ELSE TRUE
    /\ IF c # "mf" THEN UNCHANGED mfVars ELSE TRUE
    /\ IF c # "cr" THEN UNCHANGED crVars ELSE TRUE
    /\ IF c # "fp" THEN UNCHANGED fpVars ELSE TRUE
    /\ IF c # "pv" THEN UNCHANGED pvVars ELSE TRUE
    /\ IF c # "grn" THEN UNCHANGED grnVars ELSE TRUE
    /\ IF c # "rgbm" THEN UNCHANGED rgbmVars ELSE TRUE
    /\ IF c # "pm" THEN UNCHANGED pmVars ELSE TRUE
    /\ IF c # "ro" THEN UNCHANGED roVars ELSE TRUE
    /\ IF c # "own" THEN UNCHANGED ownVars ELSE TRUE

-----------------------------------------------------------------------------
(* Shared shapes and helpers *)

\* number of rows of the frames (rgb_im.shape[0])
Height == 2

\* number of columns of the frames (rgb_im.shape[1])
Width == 2

Rows == 0 .. (Height - 1)
Cols == 0 .. (Width - 1)
Pixels == Rows \X Cols

\* position of pixel p in row-major order (numpy's flatten / argmax order)
Flat(p) == p[1] * Width + p[2]

\* the pixels whose value differs between the input frames of the checked runs
NumVarying == 1
Varying == {p \in Pixels : Flat(p) < NumVarying}

\* the frames over a value set that hold `base` outside the varying pixels
Frames(values, base) ==
    {[p \in Pixels |-> IF p \in Varying THEN g[p] ELSE base] : g \in [Varying -> values]}

Abs(x) == IF x < 0 THEN -x ELSE x

Last2(s) == IF Len(s) <= 2 THEN s ELSE SubSeq(s, Len(s) - 1, Len(s))

-----------------------------------------------------------------------------
(* FrameDifference.  Colour channels are in units of 0.1, so squared       *)
(* colour distances are in units of 0.01; depths are in arbitrary units,   *)
(* only their order matters.                                               *)

\* rgb_threshold = 0.3, in units of 0.01
RgbThreshold == 30

FdColours == {<<0, 0, 0>>, <<5, 2, 1>>, <<6, 0, 0>>}
FdDepths == {1, 2}
FdRgbFrames == Frames(FdColours, <<0, 0, 0>>)
FdDepthFrames == Frames(FdDepths, 1)

\* faulty variant: a depth that did not change counts as a decrease
FdPixelDepthNotStrict(cur_rgb, prev_rgb, cur_d, prev_d) ==
    LET s == [c \in 1..3 |-> cur_rgb[c] - prev_rgb[c]]
    IN  IF s[1] * s[1] + s[2] * s[2] + s[3] * s[3] > RgbThreshold /\ prev_d - cur_d >= 0
        THEN 1 ELSE 0

\* the test of one pixel in subtraction_mask
FdPixel(cur_rgb, prev_rgb, cur_d, prev_d) ==
    LET rgb_subtraction == [c \in 1..3 |-> cur_rgb[c] - prev_rgb[c]]
    IN  IF /\ rgb_subtraction[1] * rgb_subtraction[1]
              + rgb_subtraction[2] * rgb_subtraction[2]
              + rgb_subtraction[3] * rgb_subtraction[3] > RgbThreshold
           /\ prev_d - cur_d > 0
        THEN 1 ELSE 0

\* FrameDifference.__init__: the previous frames are np.empty_like, that is
\* uninitialised memory: any frame
FdInit ==
    /\ fd_current_depth \in FdDepthFrames
    /\ fd_current_rgb \in FdRgbFrames
    /\ fd_previous_depth \in FdDepthFrames
    /\ fd_previous_rgb \in FdRgbFrames
    /\ fd_ret = <<>>
    /\ fd_supplied_depth = <<fd_current_depth>>
    /\ fd_supplied_rgb = <<fd_current_rgb>>

\* faulty variant: the setter forgets to keep the old current frame
SetCurrentDepthNoShift(current_depth) ==
    /\ fd_previous_depth' = fd_previous_depth
    /\ fd_current_depth' = current_depth
    /\ fd_supplied_depth' = Last2(Append(fd_supplied_depth, current_depth))
    /\ fd_ret' = <<>>
    /\ UNCHANGED <<fd_current_rgb, fd_previous_rgb, fd_supplied_rgb>>

\* the current_depth setter
SetCurrentDepth(current_depth) ==
    /\ fd_previous_depth' = fd_current_depth
    /\ fd_current_depth' = current_depth
    /\ fd_supplied_depth' = Last2(Append(fd_supplied_depth, current_depth))
    /\ fd_ret' = <<>>
    /\ UNCHANGED <<fd_current_rgb, fd_previous_rgb, fd_supplied_rgb>>

\* the current_rgb setter
SetCurrentRgb(current_rgb) ==
    /\ fd_previous_rgb' = fd_current_rgb
    /\ fd_current_rgb' = current_rgb
    /\ fd_supplied_rgb' = Last2(Append(fd_supplied_rgb, current_rgb))
    /\ fd_ret' = <<>>
    /\ UNCHANGED <<fd_current_depth, fd_previous_depth, fd_supplied_depth>>

\* FrameDifference.subtraction_mask
SubtractionMask ==
    /\ fd_ret' = <<[p \in Pixels |->
                     FdPixel(fd_current_rgb[p], fd_previous_rgb[p],
                             fd_current_depth[p], fd_previous_depth[p])]>>
    /\ UNCHANGED <<fd_current_depth, fd_current_rgb, fd_previous_depth,
                   fd_previous_rgb, fd_supplied_depth, fd_supplied_rgb>>

FdSetDepth == (\E d \in FdDepthFrames : SetCurrentDepth(d)) /\ Rest("fd")
FdSetRgb == (\E c \in FdRgbFrames : SetCurrentRgb(c)) /\ Rest("fd")
FdSubtractionMask == SubtractionMask /\ Rest("fd")

FdNext == FdSetDepth \/ FdSetRgb \/ FdSubtractionMask

InitFD == FdInit /\ Idle("fd")

SpecFD == InitFD /\ [][FdNext]_vars

FdSquaredDelta(p) ==
    LET d(c) == fd_current_rgb[p][c] - fd_previous_rgb[p][c]
    IN  d(1) * d(1) + d(2) * d(2) + d(3) * d(3)

(* C1: the mask returned by subtraction_mask is 1 at a pixel exactly when   *)
(* the summed squared channel differences between the current and the       *)
(* previous colour frame exceed rgb_threshold and the depth decreased, and  *)
(* 0 otherwise; for identical frames it is 0 everywhere.                    *)
C1_SubtractionMask ==
    fd_ret # <<>> =>
        /\ \A p \in Pixels :
              /\ fd_ret[1][p] \in {0, 1}
              /\ fd_ret[1][p] = 1 <=>
                    (FdSquaredDelta(p) > RgbThreshold
                     /\ fd_previous_depth[p] > fd_current_depth[p])
        /\ (fd_current_rgb = fd_previous_rgb /\ fd_current_depth = fd_previous_depth)
              => \A p \in Pixels : fd_ret[1][p] = 0

C1_Witness ==
    /\ fd_ret # <<>>
    /\ \E p, q \in Pixels :
          /\ fd_ret[1][p] = 1
          /\ fd_ret[1][q] = 0

FdMaskOf(cur_rgb, prev_rgb, cur_d, prev_d) ==
    [p \in Pixels |->
        LET d(c) == cur_rgb[p][c] - prev_rgb[p][c]
        IN  IF d(1) * d(1) + d(2) * d(2) + d(3) * d(3) > RgbThreshold /\ prev_d[p] > cur_d[p]
            THEN 1 ELSE 0]

(* C8: after every assignment the previous frame is the frame that was      *)
(* current before it and the current frame is the assigned one, so          *)
(* subtraction_mask compares the two most recently supplied frames.         *)
C8_SlidingWindow ==
    /\ fd_current_depth = fd_supplied_depth[Len(fd_supplied_depth)]
    /\ fd_current_rgb = fd_supplied_rgb[Len(fd_supplied_rgb)]
    /\ Len(fd_supplied_depth) = 2 => fd_previous_depth = fd_supplied_depth[1]
    /\ Len(fd_supplied_rgb) = 2 => fd_previous_rgb = fd_supplied_rgb[1]
    /\ (fd_ret # <<>> /\ Len(fd_supplied_depth) = 2 /\ Len(fd_supplied_rgb) = 2) =>
          fd_ret[1] = FdMaskOf(fd_supplied_rgb[2], fd_supplied_rgb[1],
                            fd_supplied_depth[2], fd_supplied_depth[1])

C8_Witness ==
    /\ Len(fd_supplied_depth) = 2 /\ Len(fd_supplied_rgb) = 2
    /\ fd_supplied_depth[1] # fd_supplied_depth[2]
    /\ fd_supplied_rgb[1] # fd_supplied_rgb[2]
    /\ fd_previous_depth # fd_current_depth
    /\ fd_ret # <<>>
    /\ \E p \in Pixels : fd_ret[1][p] = 1

-----------------------------------------------------------------------------
(* region_growing.  Depths are in units of 0.01: depth_threshold = 0.05 is *)
(* 5, a depth >= 1 (out of range) is >= 100, the sentinel 255 is 25500.    *)

\* depth_threshold=0.05, in units of 0.01
DepthThreshold == 5

\* `current_depth[i, j] >= 1`, in units of 0.01
DepthOutOfRange == 100

\* the depth sentinel 255 ("no reading"), in units of 0.01
DepthSentinel == 25500

\* the default of significant_number_of_points
SignificantNumberOfPoints == 100

\* the valid nonzero depths of the inputs: 0.10, 0.13, 0.16, ..., each less than
\* depth_threshold from the next
RgLevels == 3
RgDepths == {0, DepthSentinel} \cup {10 + 3 * k : k \in 0 .. (RgLevels - 1)}
RgSignificants == {0, 1, SignificantNumberOfPoints}

PixelAt(k) == <<k \div Width, k % Width>>
NumPixels == Height * Width

RECURSIVE SumFrom(_, _)
\* np.sum over the pixels k, k+1, ... of a frame
SumFrom(f, k) == IF k >= NumPixels THEN 0 ELSE f[PixelAt(k)] + SumFrom(f, k + 1)

RECURSIVE ArgMaxFrom(_, _, _)
\* np.argmax: the first flat index holding the greatest value
ArgMaxFrom(f, k, best) ==
    IF k >= NumPixels THEN best
    ELSE ArgMaxFrom(f, k + 1, IF f[PixelAt(k)] > f[PixelAt(best)] THEN k ELSE best)

\* the n-th of the nine pixels visited by the two `for` loops around ind
RgWindow(ind, n) == <<ind[1] - 1 + ((n - 1) \div 3), ind[2] - 1 + ((n - 1) % 3)>>

\* faulty variant: the seed of an admitted neighbour is not cleared
RgVisitKeepSeed(st, ind, nb, depth) ==
    IF /\ -1 < nb[1] /\ nb[1] < Height /\ -1 < nb[2] /\ nb[2] < Width
       /\ ~(st.done[nb] = 1) /\ ~(depth[nb] >= DepthOutOfRange)
       /\ Abs(depth[nb] - depth[ind]) < DepthThreshold
    THEN [st EXCEPT !.q = Append(@, nb), !.done[nb] = 1, !.mask[nb] = 1]
    ELSE st

\* the body of the two `for` loops for one neighbour nb of ind (lines 956-963)
RgVisit(st, ind, nb, depth) ==
    IF /\ -1 < nb[1] /\ nb[1] < Height /\ -1 < nb[2] /\ nb[2] < Width
       /\ ~(st.done[nb] = 1) /\ ~(depth[nb] >= DepthOutOfRange)
       /\ Abs(depth[nb] - depth[ind]) < DepthThreshold
    THEN [st EXCEPT !.q = Append(@, nb), !.seeds[nb] = 0, !.done[nb] = 1, !.mask[nb] = 1]
    ELSE st

RECURSIVE RgScan(_, _, _, _)
\* the two `for` loops (lines 954-963) from the n-th neighbour on; the state after
\* a visit is bound to a name, so that it is computed once
RgScan(st, ind, n, depth) ==
    IF n > 9 THEN st
    ELSE CHOOSE r \in {RgScan(visited, ind, n + 1, depth) :
                          visited \in {RgVisit(st, ind, RgWindow(ind, n), depth)}} : TRUE

RECURSIVE RgGrow(_, _)
\* `while q:` (lines 952-963); visits counts, for the record, how often each
\* pixel was taken from the queue
RgGrow(st, depth) ==
    IF st.q = <<>> THEN st
    ELSE LET ind == Head(st.q)
         IN  CHOOSE r \in {RgGrow(scanned, depth) :
                              scanned \in {RgScan([st EXCEPT !.q = Tail(@),
                                                              !.visits[ind] = @ + 1],
                                                  ind, 1, depth)}} : TRUE

\* faulty variant: a region of exactly significant_number_of_points pixels is kept
RgKeepAtLeast(mask, significant_number_of_points) ==
    SumFrom(mask, 0) >= significant_number_of_points

\* `if np.sum(mask) > significant_number_of_points` (line 964)
RgKeep(mask, significant_number_of_points) ==
    SumFrom(mask, 0) > significant_number_of_points

\* faulty variant: the seed of the region root is not cleared
RgIterationKeepRootSeed(r, depth, significant_number_of_points) ==
    LET am == ArgMaxFrom(r.seeds, 0, 0)
        ind_i == am \div Width
        ind_j == am - ind_i * Width
        root == <<ind_i, ind_j>>
        st0 == [q |-> <<root>>,
                seeds |-> r.seeds,
                done |-> [r.done EXCEPT ![root] = 1],
                mask |-> [p \in Pixels |-> IF p = root THEN 1 ELSE 0],
                visits |-> [p \in Pixels |-> 0]]
        st == CHOOSE grown \in {RgGrow(start, depth) : start \in {st0}} : TRUE
    IN  [masks |-> IF RgKeep(st.mask, significant_number_of_points)
                   THEN Append(r.masks, st.mask) ELSE r.masks,
         seeds |-> st.seeds,
         done |-> st.done,
         grown |-> Append(r.grown, st.mask),
         roots |-> Append(r.roots, root),
         visits |-> st.visits]

\* one iteration of `while not np.sum(seeds) == 0:` (lines 941-965); r carries
\* masks, seeds, done and, for the record, every grown region (grown) with its
\* root (roots) and the queue visits of the last expansion (visits)
RgIteration(r, depth, significant_number_of_points) ==
    LET am == ArgMaxFrom(r.seeds, 0, 0)
        ind_i == am \div Width
        ind_j == am - ind_i * Width
        root == <<ind_i, ind_j>>
        st0 == [q |-> <<root>>,
                seeds |-> [r.seeds EXCEPT ![root] = 0],
                done |-> [r.done EXCEPT ![root] = 1],
                mask |-> [p \in Pixels |-> IF p = root THEN 1 ELSE 0],
                visits |-> [p \in Pixels |-> 0]]
        st == CHOOSE grown \in {RgGrow(start, depth) : start \in {st0}} : TRUE
    IN  [masks |-> IF RgKeep(st.mask, significant_number_of_points)
                   THEN Append(r.masks, st.mask) ELSE r.masks,
         seeds |-> st.seeds,
         done |-> st.done,
         grown |-> Append(r.grown, st.mask),
         roots |-> Append(r.roots, root),
         visits |-> st.visits]

RECURSIVE RgLoop(_, _, _)
\* `while not np.sum(seeds) == 0:` (line 940)
RgLoop(r, depth, significant_number_of_points) ==
    IF SumFrom(r.seeds, 0) = 0 THEN r
    ELSE RgLoop(RgIteration(r, depth, significant_number_of_points),
                depth, significant_number_of_points)

\* the state before the loop (lines 936-938)
RgStart(movement_mask, current_depth) ==
    [masks |-> <<>>,
     seeds |-> [p \in Pixels |-> movement_mask[p] * current_depth[p]],
     done |-> [p \in Pixels |-> 0],
     grown |-> <<>>,
     roots |-> <<>>,
     visits |-> [p \in Pixels |-> 0]]

\* region_growing(movement_mask, current_depth, 0.05, significant_number_of_points)
RegionGrowingResult(movement_mask, current_depth, significant_number_of_points) ==
    RgLoop(RgStart(movement_mask, current_depth), current_depth,
           significant_number_of_points)

RgInit ==
    /\ rg_movement_mask \in [Pixels -> {0, 1}]
    /\ rg_current_depth \in [Pixels -> RgDepths]
    /\ rg_significant \in RgSignificants
    /\ rg_ret = <<>>

RegionGrowing ==
    /\ rg_ret = <<>>
    /\ rg_ret' = <<RegionGrowingResult(rg_movement_mask, rg_current_depth, rg_significant)>>
    /\ UNCHANGED <<rg_movement_mask, rg_current_depth, rg_significant>>

RgRegionGrowing == RegionGrowing /\ Rest("rg")

RgNext == RgRegionGrowing

InitRG == RgInit /\ Idle("rg")

SpecRG == InitRG /\ [][RgNext]_vars

\* the pixels flagged by the seed mask
RgBlob == {p \in Pixels : rg_movement_mask[p] = 1}

Adjacent(p, q) == p # q /\ Abs(p[1] - q[1]) <= 1 /\ Abs(p[2] - q[2]) <= 1

RECURSIVE ReachIn(_, _)
\* the pixels of B 8-connected to those of S inside B
ReachIn(S, B) ==
    LET T == S \cup {q \in B : \E p \in S : Adjacent(p, q)}
    IN  IF T = S THEN S ELSE ReachIn(T, B)

\* the seed mask flags one 8-connected blob of valid depths, adjacent pixels of
\* the blob closer in depth than depth_threshold, the blob at least
\* depth_threshold away in depth from every adjacent pixel outside it
RgSingleBlob ==
    /\ RgBlob # {}
    /\ \A p \in RgBlob : ReachIn({p}, RgBlob) = RgBlob
    /\ \A p \in RgBlob : rg_current_depth[p] < DepthOutOfRange
    /\ \A p, q \in RgBlob :
          Adjacent(p, q) => Abs(rg_current_depth[p] - rg_current_depth[q]) < DepthThreshold
    /\ \A p \in RgBlob : \A q \in Pixels \ RgBlob :
          Adjacent(p, q) => Abs(rg_current_depth[p] - rg_current_depth[q]) >= DepthThreshold

RgBlobMask == [p \in Pixels |-> IF p \in RgBlob THEN 1 ELSE 0]

(* C2 as stated: for a single blob of at least significant_number_of_points *)
(* pixels region_growing returns exactly one mask, the blob; for a blob of  *)
(* fewer pixels (5 against the default 100) it returns no mask.             *)
C2_AtLeastSignificant ==
    (rg_ret # <<>> /\ RgSingleBlob) =>
        /\ Cardinality(RgBlob) >= rg_significant => rg_ret[1].masks = <<RgBlobMask>>
        /\ Cardinality(RgBlob) < rg_significant => rg_ret[1].masks = <<>>

(* C2 amended: for a single blob of more than significant_number_of_points  *)
(* pixels, at least one of them of nonzero depth, region_growing returns    *)
(* exactly one mask, the blob; for a blob of at most                        *)
(* significant_number_of_points pixels it returns no mask.                  *)
C2_MoreThanSignificant ==
    (rg_ret # <<>> /\ RgSingleBlob) =>
        /\ (/\ Cardinality(RgBlob) > rg_significant
            /\ \E p \in RgBlob : rg_current_depth[p] # 0)
              => rg_ret[1].masks = <<RgBlobMask>>
        /\ Cardinality(RgBlob) <= rg_significant => rg_ret[1].masks = <<>>

C2_Witness ==
    /\ rg_ret # <<>>
    /\ RgSingleBlob
    /\ rg_significant = 1
    /\ Cardinality(RgBlob) = 3
    /\ \E p, q \in RgBlob : rg_current_depth[p] # rg_current_depth[q]
    /\ \E q \in Pixels \ RgBlob : rg_current_depth[q] < DepthOutOfRange
    /\ rg_ret[1].masks = <<RgBlobMask>>

(* C3: the masks returned by region_growing are pairwise disjoint: no pixel *)
(* is 1 in two of them.                                                     *)
C3_DisjointMasks ==
    rg_ret # <<>> =>
        \A a, b \in 1 .. Len(rg_ret[1].masks) :
            a # b => \A p \in Pixels : ~(rg_ret[1].masks[a][p] = 1 /\ rg_ret[1].masks[b][p] = 1)

C3_Witness ==
    /\ rg_ret # <<>>
    /\ Len(rg_ret[1].masks) >= 2
    /\ \E p, q \in Pixels :
          /\ p # q
          /\ rg_ret[1].masks[1][p] = 1 /\ rg_ret[1].masks[1][q] = 1
          /\ rg_movement_mask[q] = 0
    /\ \E p \in Pixels : rg_ret[1].masks[2][p] = 1 /\ rg_current_depth[p] < DepthOutOfRange

(* C20: no mask returned by region_growing contains a pixel of invalid      *)
(* depth (depth >= 1, the sentinel 255 included): every pixel of every      *)
(* grown region, the region root included, has a valid depth.               *)
C20_ValidDepthsOnly ==
    rg_ret # <<>> =>
        /\ \A a \in 1 .. Len(rg_ret[1].masks) : \A p \in Pixels :
              rg_ret[1].masks[a][p] = 1 => rg_current_depth[p] < DepthOutOfRange
        /\ \A a \in 1 .. Len(rg_ret[1].grown) : \A p \in Pixels :
              rg_ret[1].grown[a][p] = 1 => rg_current_depth[p] < DepthOutOfRange

-----------------------------------------------------------------------------
(* region_growing, one iteration of its outer loop per step                 *)

\* region_growing is called: lines 936-938
RgsCall ==
    /\ rgs_pc = "idle"
    /\ rgs_movement_mask' \in [Pixels -> {0, 1}]
    /\ rgs_current_depth' \in [Pixels -> RgDepths]
    /\ rgs_significant' \in {0, SignificantNumberOfPoints}
    /\ rgs_loop' = RgStart(rgs_movement_mask', rgs_current_depth')
    /\ rgs_iterations' = 0
    /\ rgs_pc' = "loop"

\* the loop condition holds: lines 941-965 run once
RgsIteration ==
    /\ rgs_pc = "loop"
    /\ SumFrom(rgs_loop.seeds, 0) # 0
    /\ rgs_loop' = RgIteration(rgs_loop, rgs_current_depth, rgs_significant)
    /\ rgs_iterations' = rgs_iterations + 1
    /\ UNCHANGED <<rgs_movement_mask, rgs_current_depth, rgs_significant, rgs_pc>>

\* the loop condition fails: `return masks` (line 966)
RgsReturn ==
    /\ rgs_pc = "loop"
    /\ SumFrom(rgs_loop.seeds, 0) = 0
    /\ rgs_pc' = "returned"
    /\ UNCHANGED <<rgs_movement_mask, rgs_current_depth, rgs_significant, rgs_loop,
                   rgs_iterations>>

RgsStepCall == RgsCall /\ Rest("rgs")

RgsStepIteration == RgsIteration /\ Rest("rgs")

RgsStepReturn == RgsReturn /\ Rest("rgs")

RgsNext == RgsStepCall \/ RgsStepIteration \/ RgsStepReturn

InitRGS == RgsIdle /\ Idle("rgs")

\* a step of the running call: one more iteration, or the return
RgsAdvance ==
    /\ rgs_pc = "loop"
    /\ \/ rgs_iterations' = rgs_iterations + 1 /\ rgs_pc' = "loop"
       \/ rgs_iterations' = rgs_iterations /\ rgs_pc' = "returned"

\* the interpreter runs the call on: inside the loop, a next step is taken
SpecRGS == InitRGS /\ [][RgsNext]_vars /\ WF_<<rgs_iterations, rgs_pc>>(RgsAdvance)

\* the pixels whose seed is nonzero
RgsNonzeroSeeds(r) == {p \in Pixels : r.seeds[p] # 0}

(* C19: for every 0/1 seed mask and every depth map of non-negative depths  *)
(* region_growing terminates: every iteration of the outer loop removes at  *)
(* least one nonzero seed, every breadth-first expansion takes each pixel   *)
(* from the queue at most once, the call returns, and on return no nonzero  *)
(* seed remains: every flagged pixel of nonzero depth is in some grown      *)
(* region, kept or discarded.                                               *)
C19_Terminates ==
    /\ [][(rgs_pc = "loop" /\ rgs_pc' = "loop") =>
            /\ RgsNonzeroSeeds(rgs_loop') \subseteq RgsNonzeroSeeds(rgs_loop)
            /\ RgsNonzeroSeeds(rgs_loop') # RgsNonzeroSeeds(rgs_loop)]_vars
    /\ [](rgs_pc # "idle" => \A p \in Pixels : rgs_loop.visits[p] <= 1)
    /\ (rgs_pc = "loop" ~> rgs_pc = "returned")
    /\ [](rgs_pc = "returned" =>
            /\ RgsNonzeroSeeds(rgs_loop) = {}
            /\ \A p \in Pixels :
                  (rgs_movement_mask[p] = 1 /\ rgs_current_depth[p] # 0) =>
                      \E a \in 1 .. Len(rgs_loop.grown) : rgs_loop.grown[a][p] = 1)

C19_Witness ==
    /\ rgs_pc = "returned"
    /\ Len(rgs_loop.roots) >= 2
    /\ Len(rgs_loop.masks) < Len(rgs_loop.grown)
    /\ \E a \in 1 .. Len(rgs_loop.grown) : SumFrom(rgs_loop.grown[a], 0) >= 2
    /\ \E p \in Pixels : rgs_movement_mask[p] = 1 /\ rgs_current_depth[p] = DepthSentinel

-----------------------------------------------------------------------------
(* ViBE.  Colour channels are in units of 1/255, so squared colour         *)
(* distances are in units of 1/255^2 and threshold_r = 20/255 is 5100.     *)

\* threshold_r = 20 / 255, in units of 1/255^2
ThresholdR == 5100

\* number_of_samples (20 by default)
NumberOfSamples == 3
Samples == 1 .. NumberOfSamples

\* squared distances from <<0, 0, 0>>: 4800 (below threshold_r), 5100 (equal), 5700
VibeColours == {<<0, 0, 0>>, <<40, 40, 40>>, <<70, 10, 10>>, <<50, 40, 40>>}
VibeLambdas == 0 .. (NumberOfSamples + 1)

\* a value of uninitialised memory (np.empty)
Garbage == "garbage"

RECURSIVE ColorDistanceFrom(_, _, _)
ColorDistanceFrom(current_pixel, sample_pixel, i) ==
    IF i > Len(current_pixel) THEN 0
    ELSE (current_pixel[i] - sample_pixel[i]) * (current_pixel[i] - sample_pixel[i])
         + ColorDistanceFrom(current_pixel, sample_pixel, i + 1)

\* color_distance: the sum of the squared channel differences
ColorDistance(current_pixel, sample_pixel) ==
    ColorDistanceFrom(current_pixel, sample_pixel, 1)

RECURSIVE InBackgroundNotStrictFrom(_, _, _, _, _)
InBackgroundNotStrictFrom(current, samples, k, close_pixels, threshold_lambda) ==
    IF k > NumberOfSamples THEN FALSE
    ELSE LET close == IF ColorDistance(current, samples[k]) <= ThresholdR
                      THEN close_pixels + 1 ELSE close_pixels
         IN  IF close >= threshold_lambda THEN TRUE
             ELSE InBackgroundNotStrictFrom(current, samples, k + 1, close, threshold_lambda)

\* faulty variant: a sample at exactly threshold_r counts as close
InBackgroundNotStrict(current, samples, threshold_lambda) ==
    InBackgroundNotStrictFrom(current, samples, 1, 0, threshold_lambda)

RECURSIVE InBackgroundFrom(_, _, _, _, _)
\* the `for k` loop of in_background from sample k on (sample k is index k - 1)
InBackgroundFrom(current, samples, k, close_pixels, threshold_lambda) ==
    IF k > NumberOfSamples THEN FALSE
    ELSE LET close == IF ColorDistance(current, samples[k]) < ThresholdR
                      THEN close_pixels + 1 ELSE close_pixels
         IN  IF close >= threshold_lambda THEN TRUE
             ELSE InBackgroundFrom(current, samples, k + 1, close, threshold_lambda)

\* in_background of a pixel with colour `current` and sample bank `samples`
InBackground(current, samples, threshold_lambda) ==
    InBackgroundFrom(current, samples, 1, 0, threshold_lambda)

\* a detector whose pixel <<0, 0>> holds any sample bank and any current colour
VibeInitBank ==
    /\ vibe_current_rgb \in
          {[p \in Pixels |-> IF p = <<0, 0>> THEN c ELSE <<0, 0, 0>>] : c \in VibeColours}
    /\ vibe_background \in
          {[p \in Pixels |-> IF p = <<0, 0>> THEN b ELSE [k \in Samples |-> <<0, 0, 0>>]] :
              b \in [Samples -> VibeColours]}
    /\ vibe_mask = [p \in Pixels |-> Garbage]
    /\ vibe_threshold_lambda \in VibeLambdas
    /\ vibe_ret = <<>>
    /\ vibe_call = <<>>

\* a call of ViBE.in_background(i, j)
VibeInBackgroundCall(p) ==
    /\ vibe_ret' = <<[pixel |-> p,
                      value |-> InBackground(vibe_current_rgb[p], vibe_background[p],
                                             vibe_threshold_lambda)]>>
    /\ UNCHANGED <<vibe_current_rgb, vibe_background, vibe_mask, vibe_threshold_lambda,
                   vibe_call>>

VibeInBackground == (\E p \in Pixels : VibeInBackgroundCall(p)) /\ Rest("vibe")

VibeBankNext == VibeInBackground

InitVibeBank == VibeInitBank /\ Idle("vibe")

SpecVibeBank == InitVibeBank /\ [][VibeBankNext]_vars

\* the samples of pixel p within threshold_r (squared distance) of its current colour
VibeCloseSamples(p) ==
    {k \in Samples :
        LET d(c) == vibe_current_rgb[p][c] - vibe_background[p][k][c]
        IN  d(1) * d(1) + d(2) * d(2) + d(3) * d(3) < ThresholdR}

-----------------------------------------------------------------------------
(* RGBD_MoG.  Real numbers are exact fractions over fixed denominators:    *)
(* luminance, chroma and depth in units of 1/MeanUnit, variances in units  *)
(* of 1/VarianceUnit, weights in units of 1/WeightUnit.  The detectors are *)
(* constructed with learning_rate_alfa = AlfaNum/AlfaDen = 1/2, so every   *)
(* value stays a multiple of its unit for the frames of one behaviour.     *)

\* number_of_gaussians (the depth_observations of RGBD_MoG have 3 rows whatever it is)
NumberOfGaussians == 3
Components == 0 .. (NumberOfGaussians - 1)

\* learning_rate_alfa, as a fraction
AlfaNum == 1
AlfaDen == 2
\* matching_rate_beta = 2.5, as a fraction
MatchingRateBetaNum == 5
MatchingRateBetaDen == 2
\* depth_reliability_ro = 0.2, as a fraction
RoNum == 1
RoDen == 5
\* depth_threshold = 0.01 of the mixture models, as a fraction
MogDepthThresholdNum == 1
MogDepthThresholdDen == 100
\* reliability_threshold = 0.4, as a fraction
ReliabilityThresholdNum == 2
ReliabilityThresholdDen == 5
LuminanceMin == 16
\* the invalid-depth sentinel
InvalidDepth == 255

MeanUnit == AlfaDen ^ 5
VarianceUnit == MeanUnit * MeanUnit
WeightUnit == NumberOfGaussians * (AlfaDen ^ 4)
ObsUnit == AlfaDen ^ 4

\* number of frames fed after construction
MogMaxFrames == 2

\* (1 - alfa) * old + alfa * new
Mix(old, new) == ((AlfaDen - AlfaNum) * old + AlfaNum * new) \div AlfaDen

\* RGB_to_YUV of one pixel, in units of 1/MeanUnit (the matrix in units of 1/100000)
RGB_to_YUV(rgb) ==
    << ((29900 * rgb[1] + 58700 * rgb[2] + 11400 * rgb[3]) * MeanUnit) \div 100000,
       ((50000 * rgb[3] - 16874 * rgb[1] - 33126 * rgb[2]) * MeanUnit) \div 100000
           + 128 * MeanUnit,
       ((50000 * rgb[1] - 41869 * rgb[2] - 8131 * rgb[3]) * MeanUnit) \div 100000
           + 128 * MeanUnit >>

\* grey levels (r = g = b) and depths of the one pixel that varies; 255 is invalid depth
MogGreys == {10, 12, 40}
MogDepths == {20, 30, InvalidDepth}
MogFrames ==
    {[rgb_im |-> [p \in Pixels |-> IF p = <<0, 0>> THEN <<v, v, v>> ELSE <<40, 40, 40>>],
      depth_im |-> [p \in Pixels |-> IF p = <<0, 0>> THEN d ELSE 20]] :
        v \in MogGreys, d \in MogDepths}

\* np.argsort of keys given by their order: <<j, i>> \in before is key[j] < key[i]; ties
\* keep the index order (numpy sorts 3 elements by insertion)
Argsort(before) ==
    [pos \in Components |->
        CHOOSE i \in Components :
            Cardinality({j \in Components :
                            <<j, i>> \in before \/ (<<i, j>> \notin before /\ j < i)}) = pos]

\* (delta in 1/MeanUnit) ** 2 < matching_rate_beta ** 2 * (variance in 1/VarianceUnit)
WithinBeta(delta, variance) ==
    MatchingRateBetaDen * MatchingRateBetaDen * delta * delta
        < MatchingRateBetaNum * MatchingRateBetaNum * variance

\* RGBD_MoG.initialization for one pixel
RgbdInitialGaussian(yuv, depth) ==
    [luminance_mean |-> [i \in Components |-> yuv[1]],
     color_mean |-> [i \in Components |-> <<yuv[2], yuv[3]>>],
     depth_mean |-> [i \in Components |-> depth],
     luminance_variance |-> [i \in Components |-> VarianceUnit],
     color_variance |-> [i \in Components |-> VarianceUnit],
     depth_variance |-> [i \in Components |-> VarianceUnit],
     weight |-> [i \in Components |-> WeightUnit \div NumberOfGaussians],
     ranking |-> [pos \in Components |-> pos],
     depth_observations |->
        [i \in Components |-> IF depth = InvalidDepth * MeanUnit THEN <<0, 1>> ELSE <<1, 1>>]]

\* faulty variant: the ranking of the previous call is kept
RgbdRankingStale(gauss) == gauss.ranking

\* set_ranking: np.argsort(-weight / luminance_variance)
RgbdRanking(gauss) ==
    Argsort({ji \in Components \X Components :
                gauss.weight[ji[1]] * gauss.luminance_variance[ji[2]]
                    > gauss.weight[ji[2]] * gauss.luminance_variance[ji[1]]})

\* matching: the matching criterion of every component of one pixel
RgbdMatching(gauss, yuv_pixel, depth_pixel) ==
    [i \in Components |->
        LET depth_matching ==
                \/ WithinBeta(depth_pixel - gauss.depth_mean[i], gauss.depth_variance[i])
                \/ depth_pixel = InvalidDepth * MeanUnit
                \/ gauss.depth_observations[i][1] * RoDen
                      < RoNum * gauss.depth_observations[i][2]
            color_condition_1 ==
                /\ gauss.luminance_mean[i] > LuminanceMin * MeanUnit
                /\ yuv_pixel[1] > LuminanceMin * MeanUnit
            color_condition_2 ==
                WithinBeta(yuv_pixel[1] - gauss.luminance_mean[i], gauss.luminance_variance[i])
            color_condition_3 ==
                WithinBeta((yuv_pixel[2] - gauss.color_mean[i][1])
                               + (yuv_pixel[3] - gauss.color_mean[i][2]),
                           gauss.color_variance[i])
            color_matching ==
                IF color_condition_1 THEN color_condition_2 \/ color_condition_3
                ELSE color_condition_2
        IN  depth_matching /\ color_matching]

\* 1 if depth_pixel < 255 else 0
Valid(depth_pixel) == IF depth_pixel < InvalidDepth * MeanUnit THEN 1 ELSE 0

\* update: the components of one pixel after the frame, n = number_of_observations
RgbdUpdate(gauss, matching_criterion, yuv_pixel, depth_pixel, n) ==
    LET m(i) == matching_criterion[i]
        chroma2(i) ==
            (yuv_pixel[2] - gauss.color_mean[i][1]) * (yuv_pixel[2] - gauss.color_mean[i][1])
            + (yuv_pixel[3] - gauss.color_mean[i][2]) * (yuv_pixel[3] - gauss.color_mean[i][2])
        index == gauss.ranking[NumberOfGaussians - 1]
    IN  IF \E i \in Components : m(i)
        THEN [gauss EXCEPT
                !.luminance_variance = [i \in Components |->
                    IF m(i) THEN Mix(@[i], (yuv_pixel[1] - gauss.luminance_mean[i])
                                            * (yuv_pixel[1] - gauss.luminance_mean[i]))
                    ELSE @[i]],
                !.luminance_mean = [i \in Components |->
                    IF m(i) THEN Mix(@[i], yuv_pixel[1]) ELSE @[i]],
                !.color_variance = [i \in Components |->
                    IF m(i) THEN Mix(@[i], chroma2(i)) ELSE @[i]],
                !.color_mean = [i \in Components |->
                    IF m(i) THEN <<Mix(@[i][1], yuv_pixel[2]), Mix(@[i][2], yuv_pixel[3])>>
                    ELSE @[i]],
                \* depth_observations is an integer array: the fraction is dropped
                !.depth_observations = [i \in Components |->
                    IF m(i) THEN <<Mix(@[i][1], Valid(depth_pixel)), n>> ELSE @[i]],
                !.depth_variance = [i \in Components |->
                    IF m(i) THEN Mix(@[i], (depth_pixel - gauss.depth_mean[i])
                                            * (depth_pixel - gauss.depth_mean[i]))
                    ELSE @[i]],
                !.depth_mean = [i \in Components |->
                    IF m(i) THEN Mix(@[i], depth_pixel) ELSE @[i]],
                !.weight = [i \in Components |->
                    IF m(i) THEN Mix(@[i], WeightUnit) ELSE @[i]]]
        ELSE [gauss EXCEPT
                !.luminance_mean[index] = yuv_pixel[1],
                !.color_mean[index] = <<yuv_pixel[2], yuv_pixel[3]>>,
                !.depth_mean[index] = depth_pixel,
                !.luminance_variance[index] = VarianceUnit,
                !.color_variance[index] = VarianceUnit,
                !.depth_variance[index] = VarianceUnit,
                !.weight[index] = (AlfaNum * WeightUnit) \div AlfaDen,
                !.depth_observations[index] = <<Mix(0, Valid(depth_pixel)), n>>]

\* ratio of the depth observations > depth_reliability_ro and weight > depth_threshold
RgbdDepthCandidate(gauss, index) ==
    /\ gauss.depth_observations[index][1] * RoDen > RoNum * gauss.depth_observations[index][2]
    /\ gauss.weight[index] * MogDepthThresholdDen > MogDepthThresholdNum * WeightUnit

RECURSIVE RgbdDepthReliabilityFrom(_, _, _, _, _)
\* the loop `for index in np.argsort(-gauss.depth_mean)` of pixel_mask from position pos
RgbdDepthReliabilityFrom(gauss, order, pos, max_depth, depth_reliability) ==
    IF pos >= NumberOfGaussians THEN depth_reliability
    ELSE LET index == order[pos]
             marked == RgbdDepthCandidate(gauss, index) /\ gauss.depth_mean[index] >= max_depth
         IN  RgbdDepthReliabilityFrom(gauss, order, pos + 1,
                 IF marked THEN gauss.depth_mean[index] ELSE max_depth,
                 IF marked THEN [depth_reliability EXCEPT ![index] = 1] ELSE depth_reliability)

RgbdDepthReliability(gauss) ==
    RgbdDepthReliabilityFrom(gauss,
        Argsort({ji \in Components \X Components :
                    gauss.depth_mean[ji[1]] > gauss.depth_mean[ji[2]]}),
        0, 0, [i \in Components |-> 0])

\* threshold < reliability_threshold, threshold in units of 1/WeightUnit
BelowReliabilityThreshold(threshold) ==
    threshold * ReliabilityThresholdDen < ReliabilityThresholdNum * WeightUnit

RECURSIVE RgbdAccumulate(_, _)
\* `while threshold < reliability_threshold: threshold += weight`
RgbdAccumulate(threshold, weight) ==
    IF BelowReliabilityThreshold(threshold) THEN RgbdAccumulate(threshold + weight, weight)
    ELSE threshold

RECURSIVE RgbdColorReliabilityFrom(_, _, _, _)
\* the loop `for index in gauss.ranking` of pixel_mask from position pos
RgbdColorReliabilityFrom(gauss, pos, threshold, color_reliability) ==
    IF pos >= NumberOfGaussians THEN color_reliability
    ELSE LET index == gauss.ranking[pos]
         IN  RgbdColorReliabilityFrom(gauss, pos + 1,
                 RgbdAccumulate(threshold, gauss.weight[index]),
                 IF BelowReliabilityThreshold(threshold)
                 THEN [color_reliability EXCEPT ![index] = 1] ELSE color_reliability)

RgbdColorReliability(gauss) ==
    RgbdColorReliabilityFrom(gauss, 0, 0, [i \in Components |-> 0])

\* faulty variant: pixel_mask without the pixel_reliability term
RgbdPixelMaskNoPixelReliability(gauss, matching_criterion, yuv_pixel, depth_pixel) ==
    LET depth_reliability == RgbdDepthReliability(gauss)
        color_reliability == RgbdColorReliability(gauss)
        background ==
            \/ \E i \in Components : matching_criterion[i] /\ color_reliability[i] = 1
            \/ \E i \in Components : matching_criterion[i] /\ depth_reliability[i] = 1
    IN  IF background THEN 0 ELSE 255

\* pixel_mask: the mask value of one pixel, gauss being its components after update
RgbdPixelMask(gauss, matching_criterion, yuv_pixel, depth_pixel) ==
    LET depth_reliability == RgbdDepthReliability(gauss)
        color_reliability == RgbdColorReliability(gauss)
        pixel_reliability ==
            /\ depth_pixel = InvalidDepth * MeanUnit
            /\ yuv_pixel[1] <= LuminanceMin * MeanUnit
        background ==
            \/ \E i \in Components : matching_criterion[i] /\ color_reliability[i] = 1
            \/ \E i \in Components : matching_criterion[i] /\ depth_reliability[i] = 1
            \/ pixel_reliability
    IN  IF background THEN 0 ELSE 255

\* RGBD_MoG.__init__(rgb_im, depth_im)
RgbdConstruct(frame) ==
    LET yuv == [p \in Pixels |-> RGB_to_YUV(frame.rgb_im[p])]
        depth == [p \in Pixels |-> frame.depth_im[p] * MeanUnit]
    IN  /\ rgbd_current_yuv = yuv
        /\ rgbd_current_depth = depth
        /\ rgbd_gaussians = [p \in Pixels |-> RgbdInitialGaussian(yuv[p], depth[p])]
        /\ rgbd_mask = [p \in Pixels |-> 0]
        /\ rgbd_matching = [p \in Pixels |-> [i \in Components |-> FALSE]]

\* RGBD_MoG.set_mask(rgb_im, depth_im)
RgbdSetMaskCall(frame) ==
    LET yuv == [p \in Pixels |-> RGB_to_YUV(frame.rgb_im[p])]
        depth == [p \in Pixels |-> frame.depth_im[p] * MeanUnit]
        number_of_observations == rgbd_gaussians[<<0, 0>>].depth_observations[0][2] + 1
        ranked == [p \in Pixels |->
                      [rgbd_gaussians[p] EXCEPT !.ranking = RgbdRanking(rgbd_gaussians[p])]]
        matching_criterion ==
            [p \in Pixels |-> RgbdMatching(ranked[p], yuv[p], depth[p])]
        updated == [p \in Pixels |->
                       RgbdUpdate(ranked[p], matching_criterion[p], yuv[p], depth[p],
                                  number_of_observations)]
    IN  /\ rgbd_current_yuv' = yuv
        /\ rgbd_current_depth' = depth
        /\ rgbd_gaussians' = updated
        /\ rgbd_matching' = matching_criterion
        /\ rgbd_mask' = [p \in Pixels |->
                            RgbdPixelMask(updated[p], matching_criterion[p], yuv[p], depth[p])]

RgbdInit ==
    /\ \E frame \in MogFrames : RgbdConstruct(frame)
    /\ FastIdle
    /\ mog_calls = 0

RgbdSetMask ==
    /\ mog_calls < MogMaxFrames
    /\ \E frame \in MogFrames : RgbdSetMaskCall(frame)
    /\ mog_calls' = mog_calls + 1
    /\ UNCHANGED fastVars
    /\ Rest("mog")

RgbdNext == RgbdSetMask

InitRGBD == RgbdInit /\ Idle("mog")

SpecRGBD == InitRGBD /\ [][RgbdNext]_vars

\* component i of pixel p has a reliable depth estimate of the largest depth mean
RgbdDepthReliable(p, i) ==
    LET gauss == rgbd_gaussians[p]
    IN  /\ RgbdDepthCandidate(gauss, i)
        /\ \A j \in Components :
              RgbdDepthCandidate(gauss, j) => gauss.depth_mean[j] <= gauss.depth_mean[i]

\* component i of pixel p is the one pixel_mask marks in its walk of the ranking
RgbdColorReliable(p, i) == i = rgbd_gaussians[p].ranking[0]

RgbdPixelReliable(p) ==
    /\ rgbd_current_depth[p] = InvalidDepth * MeanUnit
    /\ rgbd_current_yuv[p][1] <= LuminanceMin * MeanUnit

RgbdLowestRanked(p) ==
    CHOOSE i \in Components :
        \A j \in Components \ {i} :
            \/ rgbd_gaussians[p].weight[j] * rgbd_gaussians[p].luminance_variance[i]
                  > rgbd_gaussians[p].weight[i] * rgbd_gaussians[p].luminance_variance[j]
            \/ /\ rgbd_gaussians[p].weight[j] * rgbd_gaussians[p].luminance_variance[i]
                      = rgbd_gaussians[p].weight[i] * rgbd_gaussians[p].luminance_variance[j]
               /\ j < i

\* component i of pixel p has the same parameters before and after the step
RgbdComponentUnchanged(p, i) ==
    /\ rgbd_gaussians'[p].luminance_mean[i] = rgbd_gaussians[p].luminance_mean[i]
    /\ rgbd_gaussians'[p].color_mean[i] = rgbd_gaussians[p].color_mean[i]
    /\ rgbd_gaussians'[p].depth_mean[i] = rgbd_gaussians[p].depth_mean[i]
    /\ rgbd_gaussians'[p].luminance_variance[i] = rgbd_gaussians[p].luminance_variance[i]
    /\ rgbd_gaussians'[p].color_variance[i] = rgbd_gaussians[p].color_variance[i]
    /\ rgbd_gaussians'[p].depth_variance[i] = rgbd_gaussians[p].depth_variance[i]
    /\ rgbd_gaussians'[p].weight[i] = rgbd_gaussians[p].weight[i]
    /\ rgbd_gaussians'[p].depth_observations[i] = rgbd_gaussians[p].depth_observations[i]

\* component i of pixel p is, after the step, a fresh component for the frame of the
\* step: the means are the current values, the variances 1, the weight
\* learning_rate_alfa, the depth observations alfa * [depth < 255] (0 in the integer
\* array) over the observation counter of the call
RgbdComponentReplaced(p, i) ==
    /\ rgbd_gaussians'[p].luminance_mean[i] = rgbd_current_yuv'[p][1]
    /\ rgbd_gaussians'[p].color_mean[i] = <<rgbd_current_yuv'[p][2], rgbd_current_yuv'[p][3]>>
    /\ rgbd_gaussians'[p].depth_mean[i] = rgbd_current_depth'[p]
    /\ rgbd_gaussians'[p].luminance_variance[i] = VarianceUnit
    /\ rgbd_gaussians'[p].color_variance[i] = VarianceUnit
    /\ rgbd_gaussians'[p].depth_variance[i] = VarianceUnit
    /\ rgbd_gaussians'[p].weight[i] * AlfaDen = AlfaNum * WeightUnit
    /\ rgbd_gaussians'[p].depth_observations[i]
          = <<0, rgbd_gaussians[<<0, 0>>].depth_observations[0][2] + 1>>

(* C25: when no component of a pixel matches the current observation,       *)
(* exactly one component is changed, the last one in the descending         *)
(* weight/variance ranking computed for this call: its luminance, chroma    *)
(* and depth means become the current values, its three variances 1, its    *)
(* weight learning_rate_alfa and its depth observations are reset; every    *)
(* other component of the pixel is unchanged.                               *)
C25_LowestRankedReplaced ==
    [][\A p \in Pixels :
          (mog_calls' = mog_calls + 1 /\ \A i \in Components : ~rgbd_matching'[p][i])
          => /\ RgbdComponentReplaced(p, RgbdLowestRanked(p))
             /\ ~RgbdComponentUnchanged(p, RgbdLowestRanked(p))
             /\ \A j \in Components \ {RgbdLowestRanked(p)} : RgbdComponentUnchanged(p, j)]_vars

\* two frames in a row matched no component of pixel <<0, 0>>: the second replaced
\* component 1, the first had replaced component 2
C25_Witness ==
    /\ mog_calls = 2
    /\ \A i \in Components : ~rgbd_matching[<<0, 0>>][i]
    /\ rgbd_gaussians[<<0, 0>>].ranking[0] = 2
    /\ rgbd_gaussians[<<0, 0>>].ranking[NumberOfGaussians - 1] = 1
    /\ rgbd_gaussians[<<0, 0>>].weight[1] * AlfaDen = AlfaNum * WeightUnit
    /\ rgbd_gaussians[<<0, 0>>].weight[2] * AlfaDen = AlfaNum * WeightUnit
    /\ rgbd_gaussians[<<0, 0>>].luminance_mean[1] # rgbd_gaussians[<<0, 0>>].luminance_mean[2]

(* C26: the denominator of the depth-observation pair is a single running   *)
(* frame counter: the value used by the k-th call of set_mask is one more   *)
(* than the value used by the call before (1 initially), that is k + 1,     *)
(* whatever matched in earlier calls, and every component updated or        *)
(* replaced during one call receives that same value.                       *)
C26_RunningFrameCounter ==
    mog_calls > 0 =>
        \A p \in Pixels :
            /\ \A i \in Components :
                  rgbd_matching[p][i] =>
                      rgbd_gaussians[p].depth_observations[i][2] = mog_calls + 1
            /\ (\A i \in Components : ~rgbd_matching[p][i]) =>
                  rgbd_gaussians[p].depth_observations[
                      rgbd_gaussians[p].ranking[NumberOfGaussians - 1]][2] = mog_calls + 1

-----------------------------------------------------------------------------
(* Fast_RGBD_MoG.  Arrays are indexed [pixel][channel][component],           *)
(* channels 0..2 being Y, U, V and channel 3 the depth; the depth            *)
(* observations are floats, the numerator in units of 1/ObsUnit.             *)

Channels == 0 .. 3

\* default_variance = 1.0
DefaultVariance == VarianceUnit

\* np.c_[current_yuv, current_depth] of one pixel
FastData(yuv_pixel, depth_pixel) ==
    [c \in Channels |-> IF c < 3 THEN yuv_pixel[c + 1] ELSE depth_pixel]

\* sort: np.argmin(weight / variance, axis=2) of one pixel, per channel
FastSort(weight, variance) ==
    [c \in Channels |->
        CHOOSE k \in Components :
            \A j \in Components :
                /\ weight[c][k] * variance[c][j] <= weight[c][j] * variance[c][k]
                /\ j < k => weight[c][j] * variance[c][k] > weight[c][k] * variance[c][j]]

\* get_matching_criterion of one pixel
FastMatching(mean, variance, obs, yuv_pixel, depth_pixel) ==
    [k \in Components |->
        LET d_c_1 == WithinBeta(depth_pixel - mean[3][k], variance[3][k])
            d_c_2 == depth_pixel = InvalidDepth * MeanUnit
            d_c_3 == obs[0][k] * RoDen < RoNum * obs[1][k] * ObsUnit
            c_c_1 == /\ mean[0][k] > LuminanceMin * MeanUnit
                     /\ yuv_pixel[1] > LuminanceMin * MeanUnit
            \* current_yuv[:, 0] - mean[:, 0] ** 2 < beta * variance[:, 0]
            c_c_2 == MatchingRateBetaDen * MatchingRateBetaDen
                         * (MeanUnit * yuv_pixel[1] - mean[0][k] * mean[0][k])
                     < MatchingRateBetaNum * MatchingRateBetaNum * variance[0][k]
            c_c_3 == WithinBeta((yuv_pixel[2] - mean[1][k]) + (yuv_pixel[3] - mean[2][k]),
                                variance[1][k])
            color_matching == IF c_c_1 THEN c_c_2 \/ c_c_3 ELSE c_c_2
        IN  (d_c_1 \/ d_c_2 \/ d_c_3) /\ color_matching]

\* update of one pixel: the new mean, variance, weight and depth observations
FastUpdate(mean, variance, weight, obs, m, r, yuv_pixel, depth_pixel) ==
    LET any == \E k \in Components : m[k]
        new_data == FastData(yuv_pixel, depth_pixel)
        mean2 == [c \in Channels |-> [k \in Components |->
                    IF any THEN (IF m[k] THEN Mix(mean[c][k], new_data[c]) ELSE mean[c][k])
                    ELSE (IF k = r[c] THEN new_data[c] ELSE mean[c][k])]]
        \* update_variance reads self.__mean, which update has already replaced
        variance2 == [c \in Channels |-> [k \in Components |->
                    IF any THEN (IF m[k]
                                 THEN Mix(variance[c][k], (new_data[c] - mean2[c][k])
                                                           * (new_data[c] - mean2[c][k]))
                                 ELSE variance[c][k])
                    ELSE (IF k = r[c] THEN DefaultVariance ELSE variance[c][k])]]
        weight2 == [c \in Channels |-> [k \in Components |->
                    IF any THEN (IF m[k] THEN Mix(weight[c][k], WeightUnit) ELSE weight[c][k])
                    ELSE (IF k = r[c] THEN (AlfaNum * WeightUnit) \div AlfaDen
                          ELSE weight[c][k])]]
        \* new_depth_observations indexes the component by the channel number of the
        \* first row of each pixel in the ranking, which is 0
        obs2 == [o \in 0 .. 1 |-> [k \in Components |->
                    IF any
                    THEN (IF o = 0 THEN Mix(obs[0][k], Valid(depth_pixel) * ObsUnit)
                          ELSE obs[1][k] + 1)
                    ELSE (IF k = 0
                          THEN (IF o = 0 THEN Mix(0, Valid(depth_pixel) * ObsUnit)
                                ELSE obs[1][k] + 1)
                          ELSE obs[o][k])]]
    IN  [mean |-> mean2, variance |-> variance2, weight |-> weight2, obs |-> obs2]

\* the first index of the largest element (np.argmax), -1 marking a used weight
FastArgmax(temp_weights) ==
    CHOOSE k \in Components :
        \A j \in Components :
            /\ temp_weights[j] <= temp_weights[k]
            /\ j < k => temp_weights[j] < temp_weights[k]

RECURSIVE FastColorReliabilityFrom(_, _, _)
\* the loop `for g in range(number_of_gaussians)` of set_mask for one pixel
FastColorReliabilityFrom(g, temp_weights, weights_sum) ==
    IF g >= NumberOfGaussians THEN [k \in Components |-> temp_weights[k] = -1]
    ELSE LET k == FastArgmax(temp_weights)
             \* weights_sum <= reliability_threshold
             below == weights_sum * ReliabilityThresholdDen
                          <= ReliabilityThresholdNum * WeightUnit
         IN  FastColorReliabilityFrom(g + 1,
                 IF below THEN [temp_weights EXCEPT ![k] = -1] ELSE temp_weights,
                 IF below THEN weights_sum + temp_weights[k] ELSE weights_sum)

\* set_mask of one pixel, from the arrays after update
FastSetMask(mean, weight, obs, m) ==
    LET condition(k) ==
            /\ obs[0][k] * RoDen > RoNum * obs[1][k] * ObsUnit
            /\ weight[3][k] * MogDepthThresholdDen > MogDepthThresholdNum * WeightUnit
            /\ mean[3][k] < InvalidDepth * MeanUnit
        temp_depth == [k \in Components |-> IF condition(k) THEN mean[3][k] ELSE 0]
        depth_reliability ==
            [k \in Components |->
                condition(k) /\ \A j \in Components : temp_depth[j] <= temp_depth[k]]
        color_reliability == FastColorReliabilityFrom(0, weight[0], 0)
        background ==
            \/ \E k \in Components : m[k] /\ color_reliability[k]
            \/ \E k \in Components : m[k] /\ depth_reliability[k]
    IN  IF background THEN 0 ELSE 255

\* Fast_RGBD_MoG.__init__(rgb_im, depth_im)
FastConstruct(frame) ==
    LET yuv == [p \in Pixels |-> RGB_to_YUV(frame.rgb_im[p])]
        depth == [p \in Pixels |-> frame.depth_im[p] * MeanUnit]
    IN  /\ fast_current_yuv = yuv
        /\ fast_current_depth = depth
        /\ fast_mean = [p \in Pixels |-> [c \in Channels |-> [k \in Components |->
                            FastData(yuv[p], depth[p])[c]]]]
        /\ fast_variance = [p \in Pixels |-> [c \in Channels |-> [k \in Components |->
                            DefaultVariance]]]
        /\ fast_weight = [p \in Pixels |-> [c \in Channels |-> [k \in Components |->
                            WeightUnit \div NumberOfGaussians]]]
        /\ fast_depth_observations =
              [p \in Pixels |-> [o \in 0 .. 1 |-> [k \in Components |->
                  IF o = 0
                  THEN (IF depth[p] = InvalidDepth * MeanUnit THEN 0 ELSE ObsUnit)
                  ELSE 1]]]
        /\ fast_ret = <<>>

\* Fast_RGBD_MoG.get_mask(rgb_im, depth_im)
FastGetMaskCall(frame) ==
    LET yuv == [p \in Pixels |-> RGB_to_YUV(frame.rgb_im[p])]
        depth == [p \in Pixels |-> frame.depth_im[p] * MeanUnit]
        ranking == [p \in Pixels |-> FastSort(fast_weight[p], fast_variance[p])]
        matching_criterion ==
            [p \in Pixels |-> FastMatching(fast_mean[p], fast_variance[p],
                                           fast_depth_observations[p], yuv[p], depth[p])]
        updated == [p \in Pixels |->
                       FastUpdate(fast_mean[p], fast_variance[p], fast_weight[p],
                                  fast_depth_observations[p], matching_criterion[p],
                                  ranking[p], yuv[p], depth[p])]
    IN  /\ fast_current_yuv' = yuv
        /\ fast_current_depth' = depth
        /\ fast_mean' = [p \in Pixels |-> updated[p].mean]
        /\ fast_variance' = [p \in Pixels |-> updated[p].variance]
        /\ fast_weight' = [p \in Pixels |-> updated[p].weight]
        /\ fast_depth_observations' = [p \in Pixels |-> updated[p].obs]
        /\ fast_ret' = <<[p \in Pixels |->
                            FastSetMask(updated[p].mean, updated[p].weight, updated[p].obs,
                                        matching_criterion[p])]>>

\* the two detectors constructed from the same first frame
PairInit ==
    /\ \E frame \in MogFrames : RgbdConstruct(frame) /\ FastConstruct(frame)
    /\ mog_calls = 0

\* the same frame fed to RGBD_MoG.set_mask and to Fast_RGBD_MoG.get_mask
PairFeed ==
    /\ mog_calls < MogMaxFrames
    /\ \E frame \in MogFrames : RgbdSetMaskCall(frame) /\ FastGetMaskCall(frame)
    /\ mog_calls' = mog_calls + 1
    /\ Rest("mog")

PairNext == PairFeed

InitPair == PairInit /\ Idle("mog")

SpecPair == InitPair /\ [][PairNext]_vars

\* the two detectors hold the same model of pixel p
PairSameModel(p) ==
    LET gauss == rgbd_gaussians[p]
    IN  \A k \in Components :
            /\ fast_mean[p][0][k] = gauss.luminance_mean[k]
            /\ <<fast_mean[p][1][k], fast_mean[p][2][k]>> = gauss.color_mean[k]
            /\ fast_mean[p][3][k] = gauss.depth_mean[k]
            /\ fast_variance[p][0][k] = gauss.luminance_variance[k]
            /\ fast_variance[p][1][k] = gauss.color_variance[k]
            /\ fast_variance[p][3][k] = gauss.depth_variance[k]
            /\ \A c \in Channels : fast_weight[p][c][k] = gauss.weight[k]
            /\ fast_depth_observations[p][0][k] = gauss.depth_observations[k][1] * ObsUnit
            /\ fast_depth_observations[p][1][k] = gauss.depth_observations[k][2]

(* C5: fed the same frames after the same first frame, Fast_RGBD_MoG.get_mask *)
(* returns the mask of RGBD_MoG.set_mask at every step, and the means,        *)
(* variances, weights and depth observations of the two models stay equal.    *)
C5_Equivalent ==
    (mog_calls > 0 /\ fast_ret # <<>>) =>
        /\ fast_ret[1] = rgbd_mask
        /\ \A p \in Pixels : PairSameModel(p)

\* the masks alone differ after the first frame fed
C5_MasksDiffer ==
    /\ mog_calls = 1
    /\ fast_ret # <<>>
    /\ fast_ret[1] # rgbd_mask

-----------------------------------------------------------------------------
(* DEVB.  Colours as for ViBE; depths in units of 1/255, so that           *)
(* threshold_theta = 3/255 is 3.                                            *)

ThresholdTheta == 3
\* threshold_lambda of DEVB
DevbThresholdLambda == 2
\* neighbourhood_area
NeighbourhoodArea == 4

DevbColours == {<<0, 0, 0>>, <<70, 10, 10>>, <<80, 80, 80>>}
DevbDepths == {10, 13, 14}

\* the values get_random_neighbour(index, resolution, area) can return
Neighbours(index, resolution) ==
    {n \in 0 .. (resolution - 1) :
        n # index /\ n - index <= NeighbourhoodArea /\ index - n <= NeighbourhoodArea}

\* DEVB.in_background of a pixel with colour `current` and sample bank `samples`
DevbInBackground(current, samples) == InBackground(current, samples, DevbThresholdLambda)

\* faulty variant: a pixel that came closer by exactly threshold_theta counts as closer
DepthCloserNotStrict(depth_background, current_depth) ==
    depth_background - current_depth >= ThresholdTheta

\* depth_background[i, j] - current_depth[i, j] > threshold_theta
DepthCloser(depth_background, current_depth) ==
    depth_background - current_depth > ThresholdTheta

\* update_sample(goal, set) into the slot drawn by random.randrange
UpdateSample(background, goal, slot, colour) ==
    [background EXCEPT ![goal][slot] = colour]

\* a detector in use: pixel <<0, 0>> has any sample bank, colour, depth and depth
\* background, and has been classified before; the other pixels never changed
DevbInit ==
    /\ devb_current_rgb \in
          {[p \in Pixels |-> IF p = <<0, 0>> THEN c ELSE <<0, 0, 0>>] : c \in DevbColours}
    /\ devb_current_depth \in
          {[p \in Pixels |-> IF p = <<0, 0>> THEN d ELSE 10] : d \in DevbDepths}
    /\ devb_depth_background \in
          {[p \in Pixels |-> IF p = <<0, 0>> THEN d ELSE 10] : d \in DevbDepths}
    /\ devb_background \in
          {[p \in Pixels |-> IF p = <<0, 0>> THEN b ELSE [k \in Samples |-> <<0, 0, 0>>]] :
              b \in [Samples -> DevbColours]}
    /\ devb_mask \in {[p \in Pixels |-> IF p = <<0, 0>> THEN m ELSE Garbage] : m \in {0, 1}}
    /\ devb_call = <<>>

\* the sample updates shared by the two branches of set_pixel
DevbStochasticUpdates(p, own, own_slot, nb, neighbour, nb_slot) ==
    LET colour == devb_current_rgb[p]
        first == IF own THEN UpdateSample(devb_background, p, own_slot, colour)
                 ELSE devb_background
    IN  IF nb THEN UpdateSample(first, neighbour, nb_slot, colour) ELSE first

\* faulty variant: the depth background is refreshed whatever the neighbour draw
DevbDepthBackgroundAfterPassAlways(p, nb) ==
    [devb_depth_background EXCEPT ![p] = devb_current_depth[p]]

\* line 310, inside the branch of the neighbour draw (line 306)
DevbDepthBackgroundAfterPass(p, nb) ==
    IF nb THEN [devb_depth_background EXCEPT ![p] = devb_current_depth[p]]
    ELSE devb_depth_background

\* DEVB.set_pixel(i, j); own and nb are the two time_factor_chance draws
DevbSetPixelCall(p, own, own_slot, nb, neighbour, nb_slot) ==
    LET in_background == DevbInBackground(devb_current_rgb[p], devb_background[p])
    IN  /\ devb_call' = <<[pixel |-> p, in_background |-> in_background,
                           own |-> own, nb |-> nb]>>
        /\ IF in_background
           THEN /\ devb_mask' = [devb_mask EXCEPT ![p] = 0]
                /\ devb_background' =
                      DevbStochasticUpdates(p, own, own_slot, nb, neighbour, nb_slot)
                /\ devb_depth_background' = DevbDepthBackgroundAfterPass(p, nb)
           ELSE IF DepthCloser(devb_depth_background[p], devb_current_depth[p])
           THEN /\ devb_mask' = [devb_mask EXCEPT ![p] = 1]
                /\ devb_background' =
                      DevbStochasticUpdates(p, own, own_slot, nb, neighbour, nb_slot)
                /\ devb_depth_background' =
                      [devb_depth_background EXCEPT ![p] = devb_current_depth[p]]
           ELSE /\ devb_mask' = [devb_mask EXCEPT ![p] = 0]
                /\ UNCHANGED <<devb_background, devb_depth_background>>
        /\ UNCHANGED <<devb_current_rgb, devb_current_depth>>

DevbSetPixel ==
    /\ devb_call = <<>>
    /\ \E p \in Pixels, own \in BOOLEAN, nb \in BOOLEAN :
          \* a slot and a neighbour are drawn only when the chance draw succeeded
          \E own_slot \in IF own THEN Samples ELSE {1},
             nb_slot \in IF nb THEN Samples ELSE {1},
             ni \in IF nb THEN Neighbours(p[1], Height) ELSE {p[1]},
             nj \in IF nb THEN Neighbours(p[2], Width) ELSE {p[2]} :
              DevbSetPixelCall(p, own, own_slot, nb, <<ni, nj>>, nb_slot)
    /\ Rest("devb")

DevbNext == DevbSetPixel

InitDEVB == DevbInit /\ Idle("devb")

SpecDEVB == InitDEVB /\ [][DevbNext]_vars

\* the samples of pixel p within threshold_r (squared distance) of its current colour
DevbCloseSamples(p) ==
    {k \in Samples :
        LET d(c) == devb_current_rgb[p][c] - devb_background[p][k][c]
        IN  d(1) * d(1) + d(2) * d(2) + d(3) * d(3) < ThresholdR}

C23_DepthSnapOnNeighbourDraw ==
    [][\A p \in Pixels :
          (/\ devb_call = <<>>
           /\ devb_call' # <<>>
           /\ devb_call'[1].pixel = p
           /\ Cardinality(DevbCloseSamples(p)) >= DevbThresholdLambda)
          => /\ devb_mask'[p] = 0
             /\ devb_depth_background'[p] =
                   IF devb_call'[1].nb THEN devb_current_depth[p]
                   ELSE devb_depth_background[p]]_vars

\* the colour test passed, the own sample was updated, the neighbour draw failed
\* and the depth background still differs from the current depth
C23_Witness ==
    /\ devb_call # <<>>
    /\ devb_call[1].in_background /\ devb_call[1].own /\ ~devb_call[1].nb
    /\ devb_mask[devb_call[1].pixel] = 0
    /\ devb_depth_background[devb_call[1].pixel] # devb_current_depth[devb_call[1].pixel]
    /\ \E k \in Samples :
          devb_background[devb_call[1].pixel][k] = devb_current_rgb[devb_call[1].pixel]

-----------------------------------------------------------------------------
(* find_functions.  np.polyfit is outside the repository: a fit is any      *)
(* output, given by whether it has a NaN and by its residuals points - y_   *)
(* (units of 0.1; squared residuals and threshold_accuracy in units of      *)
(* 0.01).  np.polyfit is taken not to raise.                                *)

\* threshold_accuracy = 1e-01
ThresholdAccuracy == 10
\* the largest value of max_poly
MaxPoly == 15
\* the largest number of observations
MaxPoints == 17
\* the largest number of fits below threshold_accuracy in one call
MaxQualifying == 3

\* the non-zero residuals of a fit: sums of squares 0, 5, 10 (the threshold) and 13
FfResiduals == {<<>>, <<1, 2>>, <<3, 1>>, <<3, 2>>}

RECURSIVE SumOfTheSquaresFrom(_, _)
SumOfTheSquaresFrom(residuals, k) ==
    IF k > Len(residuals) THEN 0
    ELSE residuals[k] * residuals[k] + SumOfTheSquaresFrom(residuals, k + 1)

\* sum_of_the_squares_of_the_residuals(points, y_), residuals = points - y_
SumOfTheSquaresOfTheResiduals(residuals) == SumOfTheSquaresFrom(residuals, 1)

\* max_poly = points.shape[0] - 1 if points.shape[0] - 1 <= 15 else 15
FfMaxPoly(n) == IF n - 1 <= MaxPoly THEN n - 1 ELSE MaxPoly

\* faulty variant: an error equal to threshold_accuracy qualifies
QualifiesNotStrict(mean_error) == mean_error <= ThresholdAccuracy

\* mean_error < threshold_accuracy
Qualifies(mean_error) == mean_error < ThresholdAccuracy

\* the call find_functions(t, points) up to the loop
FfInit ==
    /\ ff_points \in 0 .. MaxPoints
    /\ ff_i = 0
    /\ ff_fitted = {}
    /\ ff_has_nan = FALSE
    /\ ff_mean_error = <<>>
    /\ ff_found_functions = {}
    /\ ff_printed = FALSE
    /\ ff_pc = "loop"

\* one iteration of `for i in range(max_poly)` whose fit has a NaN
FfIterationNaN ==
    /\ ff_has_nan' = TRUE
    /\ UNCHANGED <<ff_mean_error, ff_found_functions>>

\* one iteration of `for i in range(max_poly)` whose fit leaves the given residuals
FfIterationFit(residuals) ==
    LET mean_error == SumOfTheSquaresOfTheResiduals(residuals)
    IN  /\ ff_has_nan' = FALSE
        /\ ff_mean_error' = <<mean_error>>
        /\ ff_found_functions' =
              IF Qualifies(mean_error) THEN ff_found_functions \cup {ff_i}
              ELSE ff_found_functions

FfIteration ==
    /\ ff_pc = "loop"
    /\ ff_i < FfMaxPoly(ff_points)
    /\ \/ FfIterationNaN
       \/ \E residuals \in FfResiduals :
             /\ SumOfTheSquaresOfTheResiduals(residuals) < ThresholdAccuracy
                    => Cardinality(ff_found_functions) < MaxQualifying
             /\ FfIterationFit(residuals)
    /\ ff_fitted' = ff_fitted \cup {ff_i}
    /\ ff_i' = ff_i + 1
    /\ UNCHANGED <<ff_points, ff_printed, ff_pc>>
    /\ Rest("ff")

\* the end of the loop: the diagnostic and the return
FfReturn ==
    /\ ff_pc = "loop"
    /\ ff_i >= FfMaxPoly(ff_points)
    /\ ff_printed' = (ff_found_functions = {})
    /\ ff_pc' = "done"
    /\ UNCHANGED <<ff_points, ff_i, ff_fitted, ff_has_nan, ff_mean_error, ff_found_functions>>
    /\ Rest("ff")

FfNext == FfIteration \/ FfReturn

InitFF == FfInit /\ Idle("ff")

SpecFF == InitFF /\ [][FfNext]_vars

Min(a, b) == IF a <= b THEN a ELSE b

(* C9: given n observations, find_functions attempts a polynomial fit for   *)
(* every degree d with 0 <= d <= min(n - 1, 15).                            *)
C9_EveryDegreeAttempted ==
    ff_pc = "done" => ff_fitted = 0 .. Min(ff_points - 1, MaxPoly)

(* C10: the result of find_functions contains exactly the attempted degrees *)
(* whose fitted output has no NaN and whose sum of squared residuals is     *)
(* strictly below threshold_accuracy; when no degree qualifies the result   *)
(* is empty and the function returns normally.                              *)
C10_ExactlyQualifying ==
    /\ [](ff_found_functions \subseteq ff_fitted)
    /\ [][ff_i' = ff_i + 1 =>
            /\ ff_fitted' = ff_fitted \cup {ff_i}
            /\ ff_found_functions' \ ff_found_functions \subseteq {ff_i}
            /\ ff_found_functions \subseteq ff_found_functions'
            /\ ff_i \in ff_found_functions' <=>
                  (~ff_has_nan' /\ ff_mean_error'[1] < ThresholdAccuracy)]_vars
    /\ [][ff_pc' = "done" =>
            /\ ff_found_functions' = ff_found_functions
            /\ ff_printed' = (ff_found_functions = {})]_vars

\* a call that returned the degrees 0 and 2 after a NaN fit and a fit at the threshold
C10_Witness ==
    /\ ff_pc = "done"
    /\ ff_points >= 5
    /\ ff_found_functions = {0, 2}
    /\ ff_mean_error = <<ThresholdAccuracy>>
    /\ ff_has_nan

-----------------------------------------------------------------------------
(* The candidate functions returned by find_functions and the functions     *)
(* that consume them: get_future_points, get_gaussian_params,               *)
(* probability_of_being_in_point, show_found_functions_with_deviation and   *)
(* show_gaussians.  Values are in units of 0.1.  The arrays hold floats:    *)
(* float64 keeps 53 significant bits, the floats of the model keep          *)
(* MantissaBits of them, and every arithmetic operation rounds its exact    *)
(* result to the nearest float, ties to the even significand.               *)

\* the number of significant bits of a float
MantissaBits == 3

RECURSIVE FlUlp(_, _)
\* the spacing of the floats around the magnitude a
FlUlp(a, ulp) == IF a \div ulp < 2 ^ MantissaBits THEN ulp ELSE FlUlp(a, 2 * ulp)

\* the multiple of ulp nearest to the magnitude a, ties to the even multiple
FlNearest(a, ulp) ==
    IF 2 * (a % ulp) > ulp \/ (2 * (a % ulp) = ulp /\ (a \div ulp) % 2 = 1)
    THEN (a \div ulp + 1) * ulp
    ELSE (a \div ulp) * ulp

\* the float nearest to x
Fl(x) == IF x < 0 THEN -FlNearest(-x, FlUlp(-x, 1)) ELSE FlNearest(x, FlUlp(x, 1))

FlAdd(x, y) == Fl(x + y)

FlSub(x, y) == Fl(x - y)

FlMul(x, y) == Fl(x * y)

\* threshold_sd=0.2 of get_gaussian_params
ThresholdSd == 2

\* step=0.1 of probability_of_being_in_point, passed on as threshold_sd
Step == 1

\* the number of calls made on one found_functions
GfMaxCalls == 2

\* the degrees of the candidates, their coefficients, standard deviations and errors
GfDegrees == {0, 1}
GfParams == {1, 5}
GfDeviations == {0, 1, 8}
GfError == 3

\* the values of tt and of t
GfTimes == {<<0, 2>>}
GfMoments == {0, 2}

\* a candidate as find_functions stores it (lines 141-143): the polynomial of degree d
GfCandidate(d, function_params, standard_deviation) ==
    [key |-> d,
     function_params |-> function_params,
     error |-> GfError,
     standard_deviation |-> standard_deviation,
     covariance_matrix |-> [i \in 1 .. d + 1 |-> [j \in 1 .. d + 1 |->
                               IF i = j THEN standard_deviation[i] * standard_deviation[i]
                               ELSE 0]]]

GfCandidates(d) ==
    {GfCandidate(d, p, s) : p \in [1 .. d + 1 -> GfParams], s \in [1 .. d + 1 -> GfDeviations]}

\* the dicts find_functions can return: at most one candidate per degree, in
\* the order of the degrees
GfFoundFunctions ==
    {<<>>}
      \cup {<<c>> : c \in GfCandidates(0) \cup GfCandidates(1)}
      \cup {<<c, d>> : c \in GfCandidates(0), d \in GfCandidates(1)}

RECURSIVE PolyvalFrom(_, _, _, _)
\* np.polyval(p, x) by Horner's rule, from the coefficient k on, y the value so far
PolyvalFrom(p, x, k, y) ==
    IF k > Len(p) THEN y ELSE PolyvalFrom(p, x, k + 1, FlAdd(FlMul(y, x), p[k]))

\* generate_poly_trajectory(x, trajectory_param) at one x
Polyval(p, x) == PolyvalFrom(p, x, 1, 0)

\* lines 193-197: f_p is the stored array, `+=` and `-=` change it in place
GfDeviate(c, deviation) ==
    IF deviation = "up"
    THEN [c EXCEPT !.function_params =
              [i \in DOMAIN @ |-> FlAdd(@[i], c.standard_deviation[i])]]
    ELSE IF deviation = "down"
    THEN [c EXCEPT !.function_params =
              [i \in DOMAIN @ |-> FlSub(@[i], c.standard_deviation[i])]]
    ELSE c

\* line 190 and lines 198-202: the rows of y for the candidates as they are now
GfTrajectories(found_functions, tt) ==
    [f \in DOMAIN found_functions |->
        [k \in DOMAIN tt |-> Polyval(found_functions[f].function_params, tt[k])]]

\* the candidates after lines 193-197 have run for each of them
GfDeviateAll(found_functions, deviation) ==
    [f \in DOMAIN found_functions |-> GfDeviate(found_functions[f], deviation)]

\* get_future_points(found_functions, tt, deviation): the returned y and the
\* found_functions it leaves
GetFuturePoints(found_functions, tt, deviation) ==
    [found_functions |-> GfDeviateAll(found_functions, deviation),
     y |-> GfTrajectories(GfDeviateAll(found_functions, deviation), tt)]

\* np.maximum(a, b) of two numbers
NpMaximum(a, b) == IF a >= b THEN a ELSE b

\* lines 226-233, given the results mean, up and down of the three calls of
\* get_future_points; a weight is <<1, n>> for 1/n
GgpResult(mean, up, down, threshold_sd) ==
    [found_functions |-> down.found_functions,
     mean |-> [f \in DOMAIN mean.y |-> mean.y[f][1]],
     standard_deviation |->
         [f \in DOMAIN mean.y |->
             NpMaximum(NpMaximum(Abs(FlSub(up.y[f][1], mean.y[f][1])),
                                 Abs(FlSub(down.y[f][1], mean.y[f][1]))),
                       threshold_sd)],
     weights |-> [f \in DOMAIN mean.y |-> <<1, Len(mean.y)>>]]

\* lines 227-228: the call with 'down' follows the call with 'up'
GgpDown(mean, up, t, threshold_sd) ==
    GgpResult(mean, up, GetFuturePoints(up.found_functions, <<t>>, "down"), threshold_sd)

\* line 226: the call with 'up' follows the call of line 225
GgpUp(mean, t, threshold_sd) ==
    GgpDown(mean, GetFuturePoints(mean.found_functions, <<t>>, "up"), t, threshold_sd)

\* get_gaussian_params(found_functions, t, threshold_sd)
GetGaussianParams(found_functions, t, threshold_sd) ==
    GgpUp(GetFuturePoints(found_functions, <<t>>, ""), t, threshold_sd)

RECURSIVE NpMinFrom(_, _, _)
NpMinFrom(a, k, least) ==
    IF k > Len(a) THEN least
    ELSE NpMinFrom(a, k + 1, IF a[k] < least THEN a[k] ELSE least)

RECURSIVE NpMaxFrom(_, _, _)
NpMaxFrom(a, k, greatest) ==
    IF k > Len(a) THEN greatest
    ELSE NpMaxFrom(a, k + 1, IF a[k] > greatest THEN a[k] ELSE greatest)

\* np.min(a) and np.max(a): <<v>>, or <<>> when a is empty and numpy raises
\* ValueError (a reduction of a zero-size array that has no identity)
NpMin(a) == IF Len(a) = 0 THEN <<>> ELSE <<NpMinFrom(a, 2, a[1])>>

NpMax(a) == IF Len(a) = 0 THEN <<>> ELSE <<NpMaxFrom(a, 2, a[1])>>

\* line 238, given the result g of get_gaussian_params: the support
\* [p_min - s_max, p_max + s_max] of the grid, or the exception raised
PbpSupport(g) ==
    IF Len(g.mean) = 0
    THEN [found_functions |-> g.found_functions, raised |-> TRUE, support |-> <<>>]
    ELSE [found_functions |-> g.found_functions, raised |-> FALSE,
          support |-> <<FlSub(NpMin(g.mean)[1], FlMul(4, NpMax(g.standard_deviation)[1])),
                        FlAdd(NpMax(g.mean)[1], FlMul(4, NpMax(g.standard_deviation)[1]))>>]

\* probability_of_being_in_point(found_functions, t, step) up to line 238
ProbabilityOfBeingInPoint(found_functions, t, step) ==
    PbpSupport(GetGaussianParams(found_functions, t, step))

\* lines 177-178, given the result trajectory of the call of line 176
SffUp(trajectory, tt) ==
    GetFuturePoints(GetFuturePoints(trajectory.found_functions, tt, "up").found_functions,
                    tt, "down")

\* show_found_functions_with_deviation(found_functions, t, points, tt, real_y):
\* the found_functions it leaves
ShowFoundFunctionsWithDeviation(found_functions, tt) ==
    [found_functions |-> SffUp(GetFuturePoints(found_functions, tt, ""), tt).found_functions]

\* line 207, given the result g of get_gaussian_params
SgSupport(g) == [found_functions |-> g.found_functions, raised |-> (NpMin(g.mean) = <<>>)]

\* show_gaussians(found_functions, t) up to line 207
ShowGaussians(found_functions, t) ==
    SgSupport(GetGaussianParams(found_functions, t, ThresholdSd))

GfInit ==
    /\ gf_found_functions \in GfFoundFunctions
    /\ gf_produced = gf_found_functions
    /\ gf_ret = <<>>
    /\ gf_calls = 0

GfGetFuturePoints ==
    /\ gf_calls < GfMaxCalls
    /\ \E tt \in GfTimes, deviation \in {"", "up", "down"} :
          LET r == GetFuturePoints(gf_found_functions, tt, deviation)
          IN  /\ gf_found_functions' = r.found_functions
              /\ gf_ret' = <<[op |-> "get_future_points", raised |-> FALSE, value |-> r.y]>>
    /\ gf_calls' = gf_calls + 1
    /\ UNCHANGED gf_produced
    /\ Rest("gf")

GfGetGaussianParams ==
    /\ gf_calls < GfMaxCalls
    /\ \E t \in GfMoments :
          LET r == GetGaussianParams(gf_found_functions, t, ThresholdSd)
          IN  /\ gf_found_functions' = r.found_functions
              /\ gf_ret' = <<[op |-> "get_gaussian_params", raised |-> FALSE,
                              value |-> <<r.mean, r.standard_deviation, r.weights>>]>>
    /\ gf_calls' = gf_calls + 1
    /\ UNCHANGED gf_produced
    /\ Rest("gf")

GfProbabilityOfBeingInPoint ==
    /\ gf_calls < GfMaxCalls
    /\ \E t \in GfMoments :
          LET r == ProbabilityOfBeingInPoint(gf_found_functions, t, Step)
          IN  /\ gf_found_functions' = r.found_functions
              /\ gf_ret' = <<[op |-> "probability_of_being_in_point", raised |-> r.raised,
                              value |-> r.support]>>
    /\ gf_calls' = gf_calls + 1
    /\ UNCHANGED gf_produced
    /\ Rest("gf")

GfShowFoundFunctionsWithDeviation ==
    /\ gf_calls < GfMaxCalls
    /\ \E tt \in GfTimes :
          LET r == ShowFoundFunctionsWithDeviation(gf_found_functions, tt)
          IN  /\ gf_found_functions' = r.found_functions
              /\ gf_ret' = <<[op |-> "show_found_functions_with_deviation",
                              raised |-> FALSE, value |-> <<>>]>>
    /\ gf_calls' = gf_calls + 1
    /\ UNCHANGED gf_produced
    /\ Rest("gf")

GfShowGaussians ==
    /\ gf_calls < GfMaxCalls
    /\ \E t \in GfMoments :
          LET r == ShowGaussians(gf_found_functions, t)
          IN  /\ gf_found_functions' = r.found_functions
              /\ gf_ret' = <<[op |-> "show_gaussians", raised |-> r.raised, value |-> <<>>]>>
    /\ gf_calls' = gf_calls + 1
    /\ UNCHANGED gf_produced
    /\ Rest("gf")

GfNext ==
    \/ GfGetFuturePoints
    \/ GfGetGaussianParams
    \/ GfProbabilityOfBeingInPoint
    \/ GfShowFoundFunctionsWithDeviation
    \/ GfShowGaussians

InitGF == GfInit /\ Idle("gf")

SpecGF == InitGF /\ [][GfNext]_vars

(* C11: an empty candidate set is valid input: get_gaussian_params and      *)
(* probability_of_being_in_point called with an empty candidate collection  *)
(* return an empty result and do not raise an error.                        *)
C11_EmptyIsValid ==
    (/\ gf_ret # <<>>
     /\ gf_found_functions = <<>>
     /\ gf_ret[1].op \in {"get_gaussian_params", "probability_of_being_in_point"})
        => ~gf_ret[1].raised

(* C15: a candidate is immutable once find_functions has produced it: after *)
(* any call of get_future_points (with deviation '', 'up' or 'down') each   *)
(* candidate's coefficient vector function_params equals its value before   *)
(* the call.                                                                *)
C15_CandidatesImmutable ==
    [][(gf_ret' # <<>> /\ gf_ret'[1].op = "get_future_points") =>
          \A f \in DOMAIN gf_found_functions :
              gf_found_functions'[f].function_params
                  = gf_found_functions[f].function_params]_vars

(* C16: the visualization functions do not alter model state: after         *)
(* show_found_functions_with_deviation or show_gaussians returns, every     *)
(* candidate's function_params, standard_deviation, covariance_matrix and   *)
(* error equal their values before the call.                                *)
C16_ShowLeavesCandidates ==
    [][(/\ gf_ret' # <<>>
        /\ gf_ret'[1].op \in {"show_found_functions_with_deviation", "show_gaussians"}
        /\ ~gf_ret'[1].raised) =>
          \A f \in DOMAIN gf_found_functions :
              /\ gf_found_functions'[f].function_params
                    = gf_found_functions[f].function_params
              /\ gf_found_functions'[f].standard_deviation
                    = gf_found_functions[f].standard_deviation
              /\ gf_found_functions'[f].covariance_matrix
                    = gf_found_functions[f].covariance_matrix
              /\ gf_found_functions'[f].error = gf_found_functions[f].error]_vars

-----------------------------------------------------------------------------
(* MovementFunctions: the mixture built from the candidates of one axis.    *)
(* Coefficients, standard deviations and moments are small integers, for    *)
(* which float64 arithmetic is exact; a weight is a fraction <<n, d>> in    *)
(* lowest terms.                                                            *)

\* the largest max_number_of_params
MfMaxNumberOfParams == 3

\* the degrees of the candidates, their coefficients, standard deviations and errors
MfDegrees == {0, 1, 2}
MfParams == {1, 2}
MfDeviations == {0, 1}
MfErrors == {1, 2, 4}
MfMoments == {0, 1, 3}

\* a candidate of degree d as find_functions stores it, every coefficient with
\* the standard deviation s
MfCandidate(d, function_params, s, error) ==
    [function_params |-> function_params,
     error |-> error,
     covariance_matrix |->
         [i \in 1 .. d + 1 |-> [j \in 1 .. d + 1 |-> IF i = j THEN s * s ELSE 0]]]

MfCandidates(d) ==
    {MfCandidate(d, p, s, e) : p \in [1 .. d + 1 -> MfParams], s \in MfDeviations,
                               e \in MfErrors}

\* the dicts `functions`: one candidate, or two of different degrees
MfFunctions ==
    {<<c>> : c \in UNION {MfCandidates(d) : d \in MfDegrees}}
      \cup UNION {{<<c, d>> : c \in MfCandidates(ab[1]), d \in MfCandidates(ab[2])} :
                    ab \in {x \in MfDegrees \X MfDegrees : x[1] < x[2]}}

RECURSIVE Gcd(_, _)
Gcd(a, b) == IF b = 0 THEN a ELSE Gcd(b, a % b)

\* the fraction n / d in lowest terms, d > 0
Rat(n, d) == <<n \div Gcd(n, d), d \div Gcd(n, d)>>

RatAdd(x, y) == Rat(x[1] * y[2] + y[1] * x[2], x[2] * y[2])

RatMul(x, y) == Rat(x[1] * y[1], x[2] * y[2])

RatDiv(x, y) == Rat(x[1] * y[2], x[2] * y[1])

RECURSIVE RatSumFrom(_, _)
\* np.sum of the fractions w[k], w[k + 1], ...
RatSumFrom(w, k) == IF k > Len(w) THEN <<0, 1>> ELSE RatAdd(w[k], RatSumFrom(w, k + 1))

\* np.sqrt of a square
Sqrt(x) == CHOOSE r \in 0 .. x : r * r = x

\* a[-n:] = v for a row a of P zeros (line 25): v is stored right-aligned
MfRightAligned(v, P) ==
    [k \in 1 .. P |-> IF k > P - Len(v) THEN v[k - (P - Len(v))] ELSE 0]

\* a[-n:, -n:] = covs for a P x P matrix of zeros (line 27)
MfRightAlignedMatrix(covs, P) ==
    [i \in 1 .. P |-> [j \in 1 .. P |->
        IF i > P - Len(covs) /\ j > P - Len(covs)
        THEN covs[i - (P - Len(covs))][j - (P - Len(covs))] ELSE 0]]

\* faulty variant: the weight of a candidate is its error
MfRawWeightIsError(error) == Rat(error, 1)

\* `1 / functions[func]['error']` (line 29)
MfRawWeight(error) == Rat(1, error)

\* line 30, given the weights w of line 29
MfNormalize(w) == [f \in DOMAIN w |-> RatDiv(w[f], RatSumFrom(w, 1))]

\* MovementFunctions(functions, max_number_of_params): the fields after __init__
MfConstruct(functions, max_number_of_params) ==
    [functions_coefficients |->
         [f \in DOMAIN functions |->
             MfRightAligned(functions[f].function_params, max_number_of_params)],
     covariance_matrices |->
         [f \in DOMAIN functions |->
             MfRightAlignedMatrix(functions[f].covariance_matrix, max_number_of_params)],
     standard_deviations |->
         [f \in DOMAIN functions |->
             [k \in 1 .. max_number_of_params |->
                 Sqrt(MfRightAlignedMatrix(functions[f].covariance_matrix,
                                           max_number_of_params)[k][k])]],
     weights |-> MfNormalize([f \in DOMAIN functions |-> MfRawWeight(functions[f].error)])]

RECURSIVE NpPolyvalFrom(_, _, _, _)
\* np.polyval(p, x) by Horner's rule, from the coefficient k on, y the value so far
NpPolyvalFrom(p, x, k, y) ==
    IF k > Len(p) THEN y ELSE NpPolyvalFrom(p, x, k + 1, y * x + p[k])

NpPolyval(p, x) == NpPolyvalFrom(p, x, 1, 0)

\* get_solution(coefficients, sd, moment), row by row
MfGetSolution(coefficients, sd, moment) ==
    [means |-> [f \in DOMAIN coefficients |-> NpPolyval(coefficients[f], moment)],
     standard_deviations |->
         [f \in DOMAIN coefficients |->
             NpMaximum(
                 Abs(NpPolyval(coefficients[f], moment)
                       - NpPolyval([k \in DOMAIN coefficients[f] |->
                                       coefficients[f][k] - sd[f][k]], moment)),
                 Abs(NpPolyval(coefficients[f], moment)
                       - NpPolyval([k \in DOMAIN coefficients[f] |->
                                       coefficients[f][k] + sd[f][k]], moment)))]]

\* faulty variant: the factors are those of the next higher powers
MfVelocityFactorsShifted(P) == [k \in 1 .. P - 1 |-> P - k + 1]

\* np.arange(P - 1, 0, -1) (line 37)
MfVelocityFactors(P) == [k \in 1 .. P - 1 |-> P - k]

\* a[:, :-1] * coefficients[np.newaxis, :] (lines 38-39)
MfTimesFactors(a) ==
    [f \in DOMAIN a |->
        [k \in 1 .. Len(a[f]) - 1 |-> a[f][k] * MfVelocityFactors(Len(a[f]))[k]]]

\* get_velocity(moment) on the fields mf
MfGetVelocity(mf, moment) ==
    MfGetSolution(MfTimesFactors(mf.functions_coefficients),
                  MfTimesFactors(mf.standard_deviations), moment)

\* get_gaussians_parameters_at_time(moment) on the fields mf
MfGetGaussiansParametersAtTime(mf, moment) ==
    MfGetSolution(mf.functions_coefficients, mf.standard_deviations, moment)

\* the fields of mf as the variables hold them
MfFields ==
    [functions_coefficients |-> mf_functions_coefficients,
     covariance_matrices |-> mf_covariance_matrices,
     standard_deviations |-> mf_standard_deviations,
     weights |-> mf_weights]

\* the state after MovementFunctions(functions, max_number_of_params)
MfInit ==
    /\ mf_functions \in MfFunctions
    /\ \E P \in 1 .. MfMaxNumberOfParams :
          /\ \A f \in DOMAIN mf_functions : Len(mf_functions[f].function_params) <= P
          /\ mf_functions_coefficients = MfConstruct(mf_functions, P).functions_coefficients
          /\ mf_covariance_matrices = MfConstruct(mf_functions, P).covariance_matrices
          /\ mf_standard_deviations = MfConstruct(mf_functions, P).standard_deviations
          /\ mf_weights = MfConstruct(mf_functions, P).weights
    /\ mf_ret = <<>>

MfCallGetVelocity ==
    /\ \E moment \in MfMoments :
          mf_ret' = <<[op |-> "get_velocity", moment |-> moment,
                       means |-> MfGetVelocity(MfFields, moment).means,
                       standard_deviations |->
                           MfGetVelocity(MfFields, moment).standard_deviations,
                       weights |-> mf_weights]>>
    /\ UNCHANGED <<mf_functions, mf_functions_coefficients, mf_covariance_matrices,
                   mf_standard_deviations, mf_weights>>
    /\ Rest("mf")

MfCallGetGaussiansParametersAtTime ==
    /\ \E moment \in MfMoments :
          mf_ret' = <<[op |-> "get_gaussians_parameters_at_time", moment |-> moment,
                       means |-> MfGetGaussiansParametersAtTime(MfFields, moment).means,
                       standard_deviations |->
                           MfGetGaussiansParametersAtTime(MfFields, moment).standard_deviations,
                       weights |-> mf_weights]>>
    /\ UNCHANGED <<mf_functions, mf_functions_coefficients, mf_covariance_matrices,
                   mf_standard_deviations, mf_weights>>
    /\ Rest("mf")

MfNext == MfCallGetVelocity \/ MfCallGetGaussiansParametersAtTime

InitMF == MfInit /\ Idle("mf")

SpecMF == InitMF /\ [][MfNext]_vars

RECURSIVE Power(_, _)
Power(x, n) == IF n = 0 THEN 1 ELSE x * Power(x, n - 1)

RECURSIVE DerivativeFrom(_, _, _)
\* p'(t) for the polynomial with the coefficients p, highest power first: the
\* sum over the terms i, i + 1, ... of (power) * coefficient * t ^ (power - 1)
DerivativeFrom(p, t, i) ==
    IF i >= Len(p) THEN 0
    ELSE (Len(p) - i) * p[i] * Power(t, Len(p) - i - 1) + DerivativeFrom(p, t, i + 1)

(* C12: for every candidate polynomial p stored in a MovementFunctions      *)
(* mixture and every time t, the mean that get_velocity(t) returns for the  *)
(* candidate is p'(t), whatever the number of padding columns; for          *)
(* y = 2t + 1 the mean is 2 for all t; the call leaves the stored           *)
(* coefficients, standard deviations and weights unchanged.                 *)
C12_VelocityIsDerivative ==
    /\ []((mf_ret # <<>> /\ mf_ret[1].op = "get_velocity") =>
            \A f \in DOMAIN mf_functions :
                /\ mf_ret[1].means[f]
                      = DerivativeFrom(mf_functions[f].function_params, mf_ret[1].moment, 1)
                /\ mf_functions[f].function_params = <<2, 1>> => mf_ret[1].means[f] = 2)
    /\ [][(mf_ret' # <<>> /\ mf_ret'[1].op = "get_velocity") =>
            /\ mf_functions_coefficients' = mf_functions_coefficients
            /\ mf_standard_deviations' = mf_standard_deviations
            /\ mf_weights' = mf_weights]_vars

\* get_velocity(3) returned for y = 2t + 1 stored with one padding column and a
\* parabola stored with none
C12_Witness ==
    /\ mf_ret # <<>>
    /\ mf_ret[1].op = "get_velocity"
    /\ mf_ret[1].moment = 3
    /\ Len(mf_functions) = 2
    /\ mf_functions[1].function_params = <<2, 1>>
    /\ mf_functions_coefficients[1] = <<0, 2, 1>>
    /\ mf_functions[2].function_params = <<1, 2, 1>>
    /\ mf_ret[1].means = <<2, 8>>

(* C18: after MovementFunctions is built from a non-empty candidate set     *)
(* with positive errors the weights sum to 1 and weight_i * error_i is the  *)
(* same for all candidates i; no later query (get_velocity,                 *)
(* get_gaussians_parameters_at_time) changes the weights.                   *)
C18_WeightsInverseToError ==
    /\ [](/\ RatSumFrom(mf_weights, 1) = <<1, 1>>
          /\ \A f, g \in DOMAIN mf_functions :
                RatMul(mf_weights[f], <<mf_functions[f].error, 1>>)
                    = RatMul(mf_weights[g], <<mf_functions[g].error, 1>>))
    /\ [][mf_weights' = mf_weights]_vars

\* a mixture of two candidates of errors 1 and 4, queried
C18_Witness ==
    /\ mf_ret # <<>>
    /\ Len(mf_functions) = 2
    /\ mf_functions[1].error = 1
    /\ mf_functions[2].error = 4
    /\ mf_weights = <<<<4, 5>>, <<1, 5>>>>
    /\ mf_ret[1].weights = mf_weights

-----------------------------------------------------------------------------
(* combine_results.  A per-axis weight is in units of 0.01, so a joint      *)
(* weight, the product of three of them, is in units of 0.000001.           *)

\* threshold_w=1e-4, in units of 0.000001
ThresholdW == 100

\* the per-axis weight vectors and the offsets of the means
CrWeights == {<<100>>, <<1, 99>>, <<50, 50>>, <<0, 100>>}
CrOffsets == {0, 3}

\* the flat size of the grid of np.meshgrid(v[0], v[1], v[2])
CrSize(v) == Len(v[1]) * Len(v[2]) * Len(v[3])

\* row r (from 0) of np.array(np.meshgrid(v[0], v[1], v[2])).T.reshape(-1, 3):
\* the grids have the shape (len(v[1]), len(v[0]), len(v[2])), grid d holding
\* v[d] along its own axis; .T reverses the axes, so that the index into v[1]
\* runs fastest, then the index into v[0], then the index into v[2] (the
\* indices of the source: v[0] is the first axis)
CrRow(v, r) ==
    <<v[1][((r \div Len(v[2])) % Len(v[1])) + 1],
      v[2][(r % Len(v[2])) + 1],
      v[3][(r \div (Len(v[2]) * Len(v[1]))) + 1]>>

\* np.prod(row) of a row of three weights
CrProd(row) == row[1] * row[2] * row[3]

\* `weights > threshold_w` (line 621)
CrAboveThreshold(weight) == weight > ThresholdW

RECURSIVE CrSelectFrom(_, _, _, _)
\* a[threshold_weights] for the rows r, r + 1, ... of the three arrays: the
\* rows whose weight passes, in their order
CrSelectFrom(m, sd, w, r) ==
    IF r >= CrSize(w) THEN <<>>
    ELSE IF CrAboveThreshold(CrProd(CrRow(w, r)))
         THEN <<[mean |-> CrRow(m, r), standard_deviation |-> CrRow(sd, r),
                 weight |-> CrProd(CrRow(w, r))]>> \o CrSelectFrom(m, sd, w, r + 1)
         ELSE CrSelectFrom(m, sd, w, r + 1)

\* combine_results(m, sd, w): row r of the three returned arrays
CombineResults(m, sd, w) == CrSelectFrom(m, sd, w, 0)

\* the arguments of a call: three mixtures, the means of an axis different
CrInit ==
    /\ cr_w \in CrWeights \X CrWeights \X CrWeights
    /\ \E offset \in CrOffsets :
          cr_m = [d \in 1 .. 3 |-> [k \in DOMAIN cr_w[d] |-> offset + 10 * d + k]]
    /\ cr_sd = [d \in 1 .. 3 |-> [k \in DOMAIN cr_w[d] |-> 2 * d + k]]
    /\ cr_ret = <<>>

CrCombineResults ==
    /\ cr_ret = <<>>
    /\ cr_ret' = <<CombineResults(cr_m, cr_sd, cr_w)>>
    /\ UNCHANGED <<cr_m, cr_sd, cr_w>>
    /\ Rest("cr")

CrNext == CrCombineResults

InitCR == CrInit /\ Idle("cr")

SpecCR == InitCR /\ [][CrNext]_vars

\* the index triples of the three mixtures
CrTriples == (DOMAIN cr_w[1]) \X (DOMAIN cr_w[2]) \X (DOMAIN cr_w[3])

\* the joint entry of the triple t
CrEntry(t) ==
    [mean |-> <<cr_m[1][t[1]], cr_m[2][t[2]], cr_m[3][t[3]]>>,
     standard_deviation |-> <<cr_sd[1][t[1]], cr_sd[2][t[2]], cr_sd[3][t[3]]>>,
     weight |-> cr_w[1][t[1]] * cr_w[2][t[2]] * cr_w[3][t[3]]]

(* C13: combine_results returns exactly one joint entry for each index      *)
(* triple (i, j, k) whose joint weight w_x[i] * w_y[j] * w_z[k] is not      *)
(* below threshold_w, and no other entry; mean, standard deviation and      *)
(* weight of a returned row come from the same triple; for three            *)
(* single-point distributions of weight 1 it returns one joint point of     *)
(* weight 1.                                                                *)
C13_OneEntryPerTriple ==
    cr_ret # <<>> =>
        /\ \A t \in CrTriples :
              CrEntry(t).weight >= ThresholdW =>
                  Cardinality({r \in DOMAIN cr_ret[1] : cr_ret[1][r] = CrEntry(t)}) = 1
        /\ \A r \in DOMAIN cr_ret[1] :
              \E t \in CrTriples :
                  CrEntry(t).weight >= ThresholdW /\ cr_ret[1][r] = CrEntry(t)
        /\ cr_w = <<<<100>>, <<100>>, <<100>>>> =>
              (Len(cr_ret[1]) = 1 /\ cr_ret[1][1].weight = 100 * 100 * 100)

-----------------------------------------------------------------------------
(* find_points_in_radius.  Coordinates and radius are small integers; a     *)
(* distance is compared through its square, which is exact.                 *)

\* the coordinates of the points, the centers and the radii
FpCoordinates == {0, 2}
FpCenters == {<<0, 0, 0>>, <<1, 1, 1>>}
FpRadii == {1, 2, 3}
FpPoints == [1 .. 3 -> FpCoordinates]

\* np.abs(points - center) (line 658), one row
FpRadiiRow(point, center) == [d \in 1 .. 3 |-> Abs(point[d] - center[d])]

\* np.linalg.norm(radii, axis=1) squared, one row
FpNormSquared(row) == row[1] * row[1] + row[2] * row[2] + row[3] * row[3]

\* `distances < radius` (line 660) for a radius that is not negative
FpInRadius(row, radius) == FpNormSquared(row) < radius * radius

RECURSIVE FpSelectFrom(_, _, _, _)
\* line 660 for the points n, n + 1, ...: the indices (from 0) of the points
\* that pass and their rows of radii, in their order
FpSelectFrom(points, center, radius, n) ==
    IF n > Len(points) THEN [idx |-> <<>>, radii |-> <<>>]
    ELSE IF FpInRadius(FpRadiiRow(points[n], center), radius)
         THEN [idx |-> <<n - 1>> \o FpSelectFrom(points, center, radius, n + 1).idx,
               radii |-> <<FpRadiiRow(points[n], center)>>
                           \o FpSelectFrom(points, center, radius, n + 1).radii]
         ELSE FpSelectFrom(points, center, radius, n + 1)

\* find_points_in_radius(points, center, radius)
FindPointsInRadius(points, center, radius) == FpSelectFrom(points, center, radius, 1)

FpInit ==
    /\ fp_points \in {<<p>> : p \in FpPoints} \cup {<<p, q>> : p \in FpPoints, q \in FpPoints}
    /\ fp_center \in FpCenters
    /\ fp_radius \in FpRadii
    /\ fp_ret = <<>>

FpFindPointsInRadius ==
    /\ fp_ret = <<>>
    /\ fp_ret' = <<FindPointsInRadius(fp_points, fp_center, fp_radius)>>
    /\ UNCHANGED <<fp_points, fp_center, fp_radius>>
    /\ Rest("fp")

FpNext == FpFindPointsInRadius

InitFP == FpInit /\ Idle("fp")

SpecFP == InitFP /\ [][FpNext]_vars

\* the square of the Euclidean distance of the point n (from 1) to the center
FpDistanceSquared(n) ==
    (fp_points[n][1] - fp_center[1]) * (fp_points[n][1] - fp_center[1])
      + (fp_points[n][2] - fp_center[2]) * (fp_points[n][2] - fp_center[2])
      + (fp_points[n][3] - fp_center[3]) * (fp_points[n][3] - fp_center[3])

(* C14: find_points_in_radius(points, center, radius) returns exactly the   *)
(* indices of the points whose Euclidean distance to center is within       *)
(* radius (less than radius), and the radius vector returned with an index  *)
(* equals point - center, component by component, the sign included.        *)
C14_IndicesAndSignedRadii ==
    fp_ret # <<>> =>
        /\ {fp_ret[1].idx[r] : r \in DOMAIN fp_ret[1].idx}
              = {n - 1 : n \in {x \in DOMAIN fp_points :
                                  FpDistanceSquared(x) < fp_radius * fp_radius}}
        /\ Len(fp_ret[1].radii) = Len(fp_ret[1].idx)
        /\ \A r \in DOMAIN fp_ret[1].idx :
              fp_ret[1].radii[r]
                  = [d \in 1 .. 3 |-> fp_points[fp_ret[1].idx[r] + 1][d] - fp_center[d]]

-----------------------------------------------------------------------------
(* PointsVelocities.  Vectors have three integer components; the radii of   *)
(* the model lie on an axis, so that their norm is an integer.              *)

\* the number of add_points calls on one object
PvMaxCalls == 2

\* the points found around a center: points_idx and radii, row by row
PvSelections ==
    { [points_idx |-> <<>>, radii |-> <<>>],
      [points_idx |-> <<3>>, radii |-> <<(<<1, 0, 0>>)>>],
      [points_idx |-> <<3, 5>>, radii |-> << <<1, 0, 0>>, <<0, 2, 0>> >>] }

\* the angular hypotheses: angular_velocities, angular_weight, angular_sd
PvHypotheses ==
    { [angular_velocities |-> <<(<<0, 0, 1>>)>>, angular_weight |-> <<100>>,
       angular_sd |-> <<(<<0, 0, 0>>)>>],
      [angular_velocities |-> << <<0, 0, 1>>, <<0, 1, 0>> >>,
       angular_weight |-> <<30, 70>>,
       angular_sd |-> << <<0, 0, 1>>, <<0, 0, 0>> >>] }

\* the linear hypothesis of the center: linear_velocity, linear_weight, linear_sd
PvLinear ==
    { [linear_velocity |-> <<1, 0, 0>>, linear_weight |-> 40, linear_sd |-> <<0, 0, 0>>],
      [linear_velocity |-> <<0, 1, 0>>, linear_weight |-> 60, linear_sd |-> <<1, 1, 1>>] }

\* np.repeat(a, repeats, axis=0): every row repeats times in a row
NpRepeat(a, repeats) ==
    [r \in 1 .. Len(a) * repeats |-> a[((r - 1) \div repeats) + 1]]

\* np.tile(a, (reps, 1)): the rows of a, reps times over
NpTile(a, reps) ==
    [r \in 1 .. Len(a) * reps |-> a[((r - 1) % Len(a)) + 1]]

\* np.tile(a, (reps, 1)) flattened by np.append without axis: reps * len(a) scalars
NpTileFlat(a, reps) ==
    [e \in 1 .. reps * Len(a) |-> a[((e - 1) % Len(a)) + 1]]

\* np.tile([x], (reps, 1)): reps rows x
NpTileOne(x, reps) == [r \in 1 .. reps |-> x]

\* np.cross(a, b) of two vectors
NpCross(a, b) ==
    << a[2] * b[3] - a[3] * b[2], a[3] * b[1] - a[1] * b[3], a[1] * b[2] - a[2] * b[1] >>

\* np.linalg.norm of a vector
NpNorm(v) == Sqrt(v[1] * v[1] + v[2] * v[2] + v[3] * v[3])

\* a + s * b, component by component
PvShift(a, s, b) == [d \in 1 .. 3 |-> a[d] + s * b[d]]

\* lines 87-92 for one row: the linear velocity of the rotation
PvAngularToLinearVelocity(angular_velocity, radius) == NpCross(angular_velocity, radius)

\* lines 88-92 for one row: the deviation of that linear velocity
PvAngularToLinearSd(angular_velocity, angular_velocity_sd, radius) ==
    [d \in 1 .. 3 |->
        NpMaximum(Abs(NpCross(angular_velocity, radius)[d]
                        - NpCross(PvShift(angular_velocity, -1, angular_velocity_sd), radius)[d]),
                  Abs(NpCross(angular_velocity, radius)[d]
                        - NpCross(PvShift(angular_velocity, 1, angular_velocity_sd), radius)[d]))]

\* calculate_angular_to_linear_velocity on arrays of rows
CalculateAngularToLinearVelocity(angular_velocity, angular_velocity_sd, radii) ==
    [w_l_v |-> [r \in DOMAIN radii |->
                    PvAngularToLinearVelocity(angular_velocity[r], radii[r])],
     w_l_s |-> [r \in DOMAIN radii |->
                    PvAngularToLinearSd(angular_velocity[r], angular_velocity_sd[r], radii[r])]]

\* PointsVelocities.__init__
PvInit ==
    /\ pv_points_idx = <<>>
    /\ pv_points_linear_velocity = <<>>
    /\ pv_points_linear_sd = <<>>
    /\ pv_points_linear_weight = <<>>
    /\ pv_points_linear_angular_velocity = <<>>
    /\ pv_points_linear_angular_sd = <<>>
    /\ pv_points_linear_angular_weight = <<>>
    /\ pv_radii = <<>>
    /\ pv_radii_length = <<>>
    /\ pv_calls = <<>>

\* add_points(center, l.linear_velocity, s.points_idx, s.radii,
\*            h.angular_velocities, l.linear_weight, h.angular_weight,
\*            l.linear_sd, h.angular_sd)
PvAddPointsWith(s, h, l) ==
    /\ pv_points_idx' = pv_points_idx \o NpRepeat(s.points_idx, Len(h.angular_velocities))
    /\ pv_radii' = pv_radii \o NpRepeat(s.radii, Len(h.angular_velocities))
    /\ pv_radii_length' = pv_radii_length \o [n \in DOMAIN s.radii |-> NpNorm(s.radii[n])]
    /\ pv_points_linear_velocity' =
          pv_points_linear_velocity
            \o NpTileOne(l.linear_velocity, Len(s.points_idx) * Len(h.angular_velocities))
    /\ pv_points_linear_sd' =
          pv_points_linear_sd
            \o NpTileOne(l.linear_sd, Len(s.points_idx) * Len(h.angular_velocities))
    /\ pv_points_linear_weight' =
          pv_points_linear_weight
            \o NpTileOne(l.linear_weight, Len(s.points_idx) * Len(h.angular_velocities))
    /\ pv_points_linear_angular_velocity' =
          pv_points_linear_angular_velocity
            \o CalculateAngularToLinearVelocity(
                   NpTile(h.angular_velocities, Len(s.points_idx)),
                   NpTile(h.angular_sd, Len(s.points_idx)),
                   NpRepeat(s.radii, Len(h.angular_velocities))).w_l_v
    /\ pv_points_linear_angular_sd' =
          pv_points_linear_angular_sd
            \o CalculateAngularToLinearVelocity(
                   NpTile(h.angular_velocities, Len(s.points_idx)),
                   NpTile(h.angular_sd, Len(s.points_idx)),
                   NpRepeat(s.radii, Len(h.angular_velocities))).w_l_s
    /\ pv_points_linear_angular_weight' =
          pv_points_linear_angular_weight
            \o NpTileFlat(h.angular_weight, Len(s.points_idx) * Len(h.angular_velocities))
    /\ pv_calls' = Append(pv_calls, [s |-> s, h |-> h, l |-> l])

PvAddPoints ==
    /\ Len(pv_calls) < PvMaxCalls
    /\ \E s \in PvSelections, h \in PvHypotheses, l \in PvLinear : PvAddPointsWith(s, h, l)
    /\ Rest("pv")

PvNext == PvAddPoints

InitPV == PvInit /\ Idle("pv")

SpecPV == InitPV /\ [][PvNext]_vars

RECURSIVE PvPairsFrom(_)
\* the (point, hypothesis) pairs of the calls c, c + 1, ..., call by call, the
\* pairs of a call point by point and, for a point, hypothesis by hypothesis
PvPairsFrom(c) ==
    IF c > Len(pv_calls) THEN <<>>
    ELSE [r \in 1 .. Len(pv_calls[c].s.points_idx) * Len(pv_calls[c].h.angular_velocities) |->
             [call |-> c,
              n |-> ((r - 1) \div Len(pv_calls[c].h.angular_velocities)) + 1,
              a |-> ((r - 1) % Len(pv_calls[c].h.angular_velocities)) + 1]]
         \o PvPairsFrom(c + 1)

PvPairs == PvPairsFrom(1)

\* row r of the nine fields describes the pair p
PvRowDescribes(r, p) ==
    /\ pv_points_idx[r] = pv_calls[p.call].s.points_idx[p.n]
    /\ pv_radii[r] = pv_calls[p.call].s.radii[p.n]
    /\ pv_radii_length[r] = NpNorm(pv_calls[p.call].s.radii[p.n])
    /\ pv_points_linear_velocity[r] = pv_calls[p.call].l.linear_velocity
    /\ pv_points_linear_sd[r] = pv_calls[p.call].l.linear_sd
    /\ pv_points_linear_weight[r] = pv_calls[p.call].l.linear_weight
    /\ pv_points_linear_angular_velocity[r]
          = NpCross(pv_calls[p.call].h.angular_velocities[p.a], pv_calls[p.call].s.radii[p.n])
    /\ pv_points_linear_angular_sd[r]
          = PvAngularToLinearSd(pv_calls[p.call].h.angular_velocities[p.a],
                                pv_calls[p.call].h.angular_sd[p.a],
                                pv_calls[p.call].s.radii[p.n])
    /\ pv_points_linear_angular_weight[r] = pv_calls[p.call].h.angular_weight[p.a]

\* the numbers of rows of the nine fields
PvLengths ==
    { Len(pv_points_idx), Len(pv_points_linear_velocity), Len(pv_points_linear_sd),
      Len(pv_points_linear_weight), Len(pv_points_linear_angular_velocity),
      Len(pv_points_linear_angular_sd), Len(pv_points_linear_angular_weight),
      Len(pv_radii), Len(pv_radii_length) }

(* C17: after any sequence of add_points calls, each of the nine fields of  *)
(* a PointsVelocities has as many rows as there are (point, hypothesis)     *)
(* pairs over the calls (the sum of N_c * A), and row r of every field      *)
(* describes the same pair.                                                 *)
C17_RowPerPair ==
    /\ PvLengths = {Len(PvPairs)}
    /\ \A r \in DOMAIN PvPairs : PvRowDescribes(r, PvPairs[r])

-----------------------------------------------------------------------------
(* ViBE.set_pixel.  The two time_factor_chance draws, the slot drawn by     *)
(* random.randrange and the neighbour drawn by get_random_neighbour are     *)
(* inputs of the call.                                                      *)

\* faulty variant: the neighbour's sample gets the neighbour's own colour
VibeStochasticUpdatesFromGoal(p, own, own_slot, nb, neighbour, nb_slot) ==
    IF nb
    THEN UpdateSample(IF own THEN UpdateSample(vibe_background, p, own_slot, vibe_current_rgb[p])
                      ELSE vibe_background,
                      neighbour, nb_slot, vibe_current_rgb[neighbour])
    ELSE IF own THEN UpdateSample(vibe_background, p, own_slot, vibe_current_rgb[p])
         ELSE vibe_background

\* lines 159-165: update_sample(i, j, i, j) when own, then
\* update_sample(neighbour_i, neighbour_j, i, j) when nb
VibeStochasticUpdates(p, own, own_slot, nb, neighbour, nb_slot) ==
    IF nb
    THEN UpdateSample(IF own THEN UpdateSample(vibe_background, p, own_slot, vibe_current_rgb[p])
                      ELSE vibe_background,
                      neighbour, nb_slot, vibe_current_rgb[p])
    ELSE IF own THEN UpdateSample(vibe_background, p, own_slot, vibe_current_rgb[p])
         ELSE vibe_background

\* ViBE.set_pixel(i, j); own and nb are the two time_factor_chance draws
VibeSetPixelCall(p, own, own_slot, nb, neighbour, nb_slot) ==
    /\ vibe_call' =
          <<[pixel |-> p,
             in_background |-> InBackground(vibe_current_rgb[p], vibe_background[p],
                                            vibe_threshold_lambda),
             own |-> own, nb |-> nb]>>
    /\ IF InBackground(vibe_current_rgb[p], vibe_background[p], vibe_threshold_lambda)
       THEN /\ vibe_mask' = [vibe_mask EXCEPT ![p] = 0]
            /\ vibe_background' =
                  VibeStochasticUpdates(p, own, own_slot, nb, neighbour, nb_slot)
       ELSE /\ vibe_mask' = [vibe_mask EXCEPT ![p] = 1]
            /\ UNCHANGED vibe_background
    /\ UNCHANGED <<vibe_current_rgb, vibe_threshold_lambda, vibe_ret>>

VibeSetPixel ==
    /\ vibe_call = <<>>
    /\ \E p \in Pixels, own \in BOOLEAN, nb \in BOOLEAN :
          \* a slot and a neighbour are drawn only when the chance draw succeeded
          \E own_slot \in IF own THEN Samples ELSE {1},
             nb_slot \in IF nb THEN Samples ELSE {1},
             ni \in IF nb THEN Neighbours(p[1], Height) ELSE {p[1]},
             nj \in IF nb THEN Neighbours(p[2], Width) ELSE {p[2]} :
              VibeSetPixelCall(p, own, own_slot, nb, <<ni, nj>>, nb_slot)
    /\ Rest("vibe")

VibeNext == VibeSetPixel

SpecVibe == InitVibeBank /\ [][VibeNext]_vars

\* the sample slots <<pixel, k>> whose value differs before and after the step
VibeChangedSlots ==
    {qk \in Pixels \X Samples : vibe_background'[qk[1]][qk[2]] # vibe_background[qk[1]][qk[2]]}

\* pixel q lies within the neighbourhood area of pixel p
VibeWithinArea(p, q) ==
    /\ Abs(q[1] - p[1]) <= NeighbourhoodArea
    /\ Abs(q[2] - p[2]) <= NeighbourhoodArea

(* C21: set_pixel(i, j) changes the sample bank only on a background        *)
(* classification.  Classified foreground, mask[i, j] becomes 1 and no      *)
(* sample of any pixel changes; classified background, mask[i, j] becomes   *)
(* 0, at most one slot of (i, j) and at most one slot of one other pixel    *)
(* within the neighbourhood area change, each to the current colour of      *)
(* (i, j).                                                                  *)
C21_BankChangesOnBackgroundOnly ==
    [][\A p \in Pixels :
          (vibe_call = <<>> /\ vibe_call' # <<>> /\ vibe_call'[1].pixel = p)
          => IF Cardinality(VibeCloseSamples(p)) >= vibe_threshold_lambda
             THEN /\ vibe_mask'[p] = 0
                  /\ \A qk \in VibeChangedSlots :
                        /\ vibe_background'[qk[1]][qk[2]] = vibe_current_rgb[p]
                        /\ VibeWithinArea(p, qk[1])
                  /\ Cardinality({qk \in VibeChangedSlots : qk[1] = p}) <= 1
                  /\ Cardinality({qk \in VibeChangedSlots : qk[1] # p}) <= 1
             ELSE /\ vibe_mask'[p] = 1
                  /\ vibe_background' = vibe_background]_vars

\* a background classification after which both draws succeeded: a slot of the
\* pixel and a slot of another pixel (whose bank held no such colour) hold the
\* current colour of the pixel
C21_Witness ==
    /\ vibe_call # <<>>
    /\ vibe_call[1].in_background /\ vibe_call[1].own /\ vibe_call[1].nb
    /\ vibe_mask[vibe_call[1].pixel] = 0
    /\ vibe_current_rgb[vibe_call[1].pixel] # <<0, 0, 0>>
    /\ \E k \in Samples :
          vibe_background[vibe_call[1].pixel][k] = vibe_current_rgb[vibe_call[1].pixel]
    /\ \E q \in Pixels \ {vibe_call[1].pixel}, k \in Samples :
          vibe_background[q][k] = vibe_current_rgb[vibe_call[1].pixel]

-----------------------------------------------------------------------------
(* get_random_neighbour, one draw of np.random.choice at a time.            *)

\* the largest image dimension
GrnMaxResolution == 6

\* potential_neighbours: np.arange(-neighbourhood_area, neighbourhood_area + 1)
\* without 0 (lines 115-116)
PotentialNeighbours == ((0 - NeighbourhoodArea) .. NeighbourhoodArea) \ {0}

\* the test of the while loop, line 915
GrnOutside(neighbour_index, resolution) ==
    neighbour_index < 0 \/ neighbour_index >= resolution

\* the call and line 914
GrnCall ==
    /\ grn_pc = "idle"
    /\ \E resolution \in 1 .. GrnMaxResolution :
          \E index \in 0 .. (resolution - 1), offset \in PotentialNeighbours :
              /\ grn_resolution' = resolution
              /\ grn_index' = index
              /\ grn_neighbour_index' = index + offset
    /\ grn_pc' = "loop"
    /\ Rest("grn")

\* lines 915-916: the test holds and the body draws again
GrnResample ==
    /\ grn_pc = "loop"
    /\ GrnOutside(grn_neighbour_index, grn_resolution)
    /\ \E offset \in PotentialNeighbours : grn_neighbour_index' = grn_index + offset
    /\ UNCHANGED <<grn_index, grn_resolution, grn_pc>>
    /\ Rest("grn")

\* lines 915, 917: the test fails and neighbour_index is returned
GrnReturn ==
    /\ grn_pc = "loop"
    /\ ~GrnOutside(grn_neighbour_index, grn_resolution)
    /\ grn_pc' = "returned"
    /\ UNCHANGED <<grn_index, grn_resolution, grn_neighbour_index>>
    /\ Rest("grn")

GrnNext == GrnCall \/ GrnResample \/ GrnReturn

InitGRN == GrnIdle /\ Idle("grn")

\* a draw that lands inside the image
GrnResampleInside ==
    /\ grn_pc = "loop"
    /\ GrnOutside(grn_neighbour_index, grn_resolution)
    /\ \E offset \in PotentialNeighbours :
          /\ ~GrnOutside(grn_index + offset, grn_resolution)
          /\ grn_neighbour_index' = grn_index + offset
    /\ UNCHANGED <<grn_index, grn_resolution, grn_pc>>

\* the interpreter keeps running, and sampling is fair: an offset that lands
\* inside the image, if there is one, is eventually drawn
SpecGRN ==
    /\ InitGRN
    /\ [][GrnNext]_vars
    /\ WF_grnVars(GrnReturn)
    /\ WF_grnVars(GrnResample)
    /\ WF_grnVars(GrnResampleInside)

(* C22: get_random_neighbour(index, resolution, area) is totally correct    *)
(* for every resolution >= 1 and every index in [0, resolution): under fair *)
(* sampling the loop terminates, and the value returned lies in             *)
(* [0, resolution), differs from index and is at most neighbourhood_area    *)
(* away from index.                                                         *)
C22_TotallyCorrect ==
    /\ (grn_pc = "loop") ~> (grn_pc = "returned")
    /\ [](grn_pc = "returned" =>
            /\ grn_neighbour_index \in 0 .. (grn_resolution - 1)
            /\ grn_neighbour_index # grn_index
            /\ Abs(grn_neighbour_index - grn_index) <= NeighbourhoodArea)

-----------------------------------------------------------------------------
(* RGB_MoG.  Colour channels are integers, variances are integers, weights  *)
(* are exact fractions.  np.exp is outside the repository and its value is  *)
(* not a fraction: what update computes from the probability density (the  *)
(* mean and the variance of a matching component) is kept as a term, a      *)
(* record of its operands, and one set_mask call is made on a detector in   *)
(* use.                                                                     *)

\* number_of_gaussians of RGB_MoG
RgbmNumberOfGaussians == 2
RgbmComponents == 0 .. (RgbmNumberOfGaussians - 1)

\* learning_rate_alfa = 0.025
RgbmAlfa == Rat(1, 40)
\* 1 - learning_rate_alfa
RgbmOneMinusAlfa == Rat(39, 40)

\* squared distances from <<0, 0, 0>>: 6 and 8 (around 6.25, the bound for variance
\* 1) and 400 (the bound for variance 4)
RgbmColours == {<<0, 0, 0>>, <<2, 1, 1>>, <<2, 2, 0>>, <<20, 0, 0>>}
RgbmMeans == {<<0, 0, 0>>, <<2, 1, 1>>, <<2, 2, 0>>}
RgbmVariances == {1, 4}
RgbmWeights == {Rat(1, 2), Rat(1, 4)}

\* the frame whose pixel <<0, 0>> has colour c
RgbmFrame(c) == [p \in Pixels |-> IF p = <<0, 0>> THEN c ELSE <<0, 0, 0>>]

\* set_raking: np.argsort(-gauss.weight / gauss.color_variance), two components
RgbmRanking(gauss) ==
    IF gauss.weight[0][1] * gauss.weight[1][2] * gauss.color_variance[1]
          >= gauss.weight[1][1] * gauss.weight[0][2] * gauss.color_variance[0]
    THEN [pos \in RgbmComponents |-> pos]
    ELSE [pos \in RgbmComponents |-> 1 - pos]

\* probability, first result: dist < 2.5 * color_variance for the component, where
\* dist = sqrt(sum((colour - mean) ** 2) / variance); both sides squared
RgbmMatchingCriterion(colour, mean, variance) ==
    4 * ColorDistance(colour, mean) < 25 * variance * variance * variance

\* probability, second result, of one component: the density, as a term
RgbmProbability(colour, mean, variance) ==
    [density_of |-> Rat(ColorDistance(colour, mean), variance), variance |-> variance]

\* update_mask (lines 467-468) of component i
RgbmUpdateMask(matching_criterion, i) ==
    IF \E k \in RgbmComponents : matching_criterion[k]
    THEN (IF matching_criterion[i] THEN 1 ELSE 0)
    ELSE 0 - 1

\* lines 470-472
RgbmUpdateWeight(update_mask, weight) ==
    IF update_mask = 1 THEN RatAdd(RatMul(RgbmOneMinusAlfa, weight), RgbmAlfa)
    ELSE RatMul(RgbmOneMinusAlfa, weight)

\* np.sum(np.subtract(colour, gauss.color_mean) ** 2) of line 476: over all components
RgbmTotalDistance(colour, color_mean) ==
    ColorDistance(colour, color_mean[0]) + ColorDistance(colour, color_mean[1])

\* faulty variant: the variance of a component that does not match is kept
RgbmUpdateVarianceKept(update_mask, variance, probability, total_distance) ==
    IF update_mask = 1
    THEN [learned |-> "color_variance", old |-> variance, probability |-> probability,
          distance |-> total_distance]
    ELSE variance

\* lines 474-477
RgbmUpdateVariance(update_mask, variance, probability, total_distance) ==
    IF update_mask = 1
    THEN [learned |-> "color_variance", old |-> variance, probability |-> probability,
          distance |-> total_distance]
    ELSE 3 + 1

\* lines 479-484
RgbmUpdateMean(update_mask, mean, probability, colour) ==
    IF update_mask = 1
    THEN [learned |-> "color_mean", old |-> mean, probability |-> probability,
          colour |-> colour]
    ELSE colour

\* update(gauss, matching_criterion, probability); colour is the current colour of the pixel
RgbmUpdate(gauss, matching_criterion, probability, colour) ==
    [weight |-> [i \in RgbmComponents |->
                    RgbmUpdateWeight(RgbmUpdateMask(matching_criterion, i), gauss.weight[i])],
     color_variance |-> [i \in RgbmComponents |->
                    RgbmUpdateVariance(RgbmUpdateMask(matching_criterion, i),
                                       gauss.color_variance[i], probability[i],
                                       RgbmTotalDistance(colour, gauss.color_mean))],
     color_mean |-> [i \in RgbmComponents |->
                    RgbmUpdateMean(RgbmUpdateMask(matching_criterion, i),
                                   gauss.color_mean[i], probability[i], colour)],
     ranking |-> gauss.ranking]

\* make_mask
RgbmMakeMask(matching_criterion) ==
    IF \E k \in RgbmComponents : matching_criterion[k] THEN 0 ELSE 255

\* the matching_criterion of pixel p for the frame rgb_im
RgbmMatchingOf(rgb_im, p) ==
    [i \in RgbmComponents |->
        RgbmMatchingCriterion(rgb_im[p], rgbm_gaussians[p].color_mean[i],
                              rgbm_gaussians[p].color_variance[i])]

\* the probability of pixel p for the frame rgb_im
RgbmProbabilityOf(rgb_im, p) ==
    [i \in RgbmComponents |->
        RgbmProbability(rgb_im[p], rgbm_gaussians[p].color_mean[i],
                        rgbm_gaussians[p].color_variance[i])]

\* a detector in use: the components of pixel <<0, 0>> have any mean, variance and
\* weight; the other pixels are as constructed on a black frame
RgbmInit ==
    /\ rgbm_current_rgb = RgbmFrame(<<0, 0, 0>>)
    /\ rgbm_gaussians \in
          {[p \in Pixels |->
               IF p = <<0, 0>>
               THEN [weight |-> w, color_variance |-> v, color_mean |-> m,
                     ranking |-> [pos \in RgbmComponents |-> pos]]
               ELSE [weight |-> [i \in RgbmComponents |-> Rat(1, RgbmNumberOfGaussians)],
                     color_variance |-> [i \in RgbmComponents |-> 1],
                     color_mean |-> [i \in RgbmComponents |-> <<0, 0, 0>>],
                     ranking |-> [pos \in RgbmComponents |-> pos]]] :
              w \in [RgbmComponents -> RgbmWeights], v \in [RgbmComponents -> RgbmVariances],
              m \in [RgbmComponents -> RgbmMeans]}
    /\ rgbm_mask = [p \in Pixels |-> 0]
    /\ rgbm_matching = <<>>

\* set_mask(rgb_im)
RgbmSetMaskCall(rgb_im) ==
    /\ rgbm_current_rgb' = rgb_im
    /\ rgbm_gaussians' =
          [p \in Pixels |->
              RgbmUpdate([rgbm_gaussians[p] EXCEPT !.ranking = RgbmRanking(rgbm_gaussians[p])],
                         RgbmMatchingOf(rgb_im, p), RgbmProbabilityOf(rgb_im, p), rgb_im[p])]
    /\ rgbm_mask' = [p \in Pixels |-> RgbmMakeMask(RgbmMatchingOf(rgb_im, p))]
    /\ rgbm_matching' = <<[p \in Pixels |-> RgbmMatchingOf(rgb_im, p)]>>

RgbmSetMask ==
    /\ rgbm_matching = <<>>
    /\ \E c \in RgbmColours : RgbmSetMaskCall(RgbmFrame(c))
    /\ Rest("rgbm")

RgbmNext == RgbmSetMask

InitRGBM == RgbmInit /\ Idle("rgbm")

SpecRGBM == InitRGBM /\ [][RgbmNext]_vars

\* component i of pixel p matches the colour of the frame of the next state:
\* sqrt(sum of squared differences / variance) < 2.5 * variance
RgbmMatches(p, i) ==
    4 * ColorDistance(rgbm_current_rgb'[p], rgbm_gaussians[p].color_mean[i])
        < 25 * (rgbm_gaussians[p].color_variance[i]
                  * rgbm_gaussians[p].color_variance[i]
                  * rgbm_gaussians[p].color_variance[i])

\* (1 - alpha) * weight of component i of pixel p
RgbmDecayed(p, i) == RatMul(Rat(39, 40), rgbm_gaussians[p].weight[i])

(* C24: in RGB_MoG.update a component that does not match the current       *)
(* colour only has its weight changed, to (1 - alpha) * weight; its mean    *)
(* and its variance are left unchanged.  A matching component gets weight   *)
(* (1 - alpha) * weight + alpha.                                            *)
C24_NonMatchingOnlyDecays ==
    [][(rgbm_matching = <<>> /\ rgbm_matching' # <<>>) =>
          \A p \in Pixels, i \in RgbmComponents :
              IF RgbmMatches(p, i)
              THEN rgbm_gaussians'[p].weight[i] = RatAdd(RgbmDecayed(p, i), Rat(1, 40))
              ELSE /\ rgbm_gaussians'[p].weight[i] = RgbmDecayed(p, i)
                   /\ rgbm_gaussians'[p].color_mean[i] = rgbm_gaussians[p].color_mean[i]
                   /\ rgbm_gaussians'[p].color_variance[i]
                         = rgbm_gaussians[p].color_variance[i]]_vars

(* C24, amended: a component that does not match the current colour gets    *)
(* weight (1 - alpha) * weight, variance 4 and the current colour as its    *)
(* mean.  A matching component gets weight (1 - alpha) * weight + alpha.    *)
C24_NonMatchingIsReset ==
    [][(rgbm_matching = <<>> /\ rgbm_matching' # <<>>) =>
          \A p \in Pixels, i \in RgbmComponents :
              IF RgbmMatches(p, i)
              THEN rgbm_gaussians'[p].weight[i] = RatAdd(RgbmDecayed(p, i), Rat(1, 40))
              ELSE /\ rgbm_gaussians'[p].weight[i] = RgbmDecayed(p, i)
                   /\ rgbm_gaussians'[p].color_mean[i] = rgbm_current_rgb'[p]
                   /\ rgbm_gaussians'[p].color_variance[i] = 4]_vars

\* after a call, component 0 of pixel <<0, 0>> matched and component 1 did not:
\* component 1 has variance 4 and the colour of the frame as its mean
C24_Witness ==
    /\ rgbm_matching # <<>>
    /\ rgbm_matching[1][<<0, 0>>][0] /\ ~rgbm_matching[1][<<0, 0>>][1]
    /\ rgbm_gaussians[<<0, 0>>].color_variance[1] = 4
    /\ rgbm_gaussians[<<0, 0>>].color_mean[1] = rgbm_current_rgb[<<0, 0>>]
    /\ rgbm_gaussians[<<0, 0>>].weight[1] = Rat(39, 160)
    /\ rgbm_gaussians[<<0, 0>>].weight[0] = Rat(41, 80)

-----------------------------------------------------------------------------
(* RGBD_MoG.pixel_mask, the walk of the ranking that marks the              *)
(* color-reliable components.  Weights in units of 1/WeightUnit; the        *)
(* weights drawn are those of a detector constructed with                   *)
(* learning_rate_alfa = 1/16: 16 is the initial 1/3, 18 is                  *)
(* (1 - alfa) / 3 + alfa after a match, 3 is alfa after a replacement.      *)

PmWeights == {3, 16, 18}

\* the orders of the components
PmRankings == {r \in [Components -> Components] : \A i \in Components : \E pos \in Components : r[pos] = i}

RECURSIVE RgbdColorThresholdFrom(_, _, _)
\* the local threshold after the loop `for index in gauss.ranking` from position pos
RgbdColorThresholdFrom(gauss, pos, threshold) ==
    IF pos >= NumberOfGaussians THEN threshold
    ELSE RgbdColorThresholdFrom(gauss, pos + 1,
                                RgbdAccumulate(threshold, gauss.weight[gauss.ranking[pos]]))

\* the local threshold at line 660
RgbdColorThreshold(gauss) == RgbdColorThresholdFrom(gauss, 0, 0)

PmInit ==
    /\ pm_gauss \in [weight : [Components -> PmWeights], ranking : PmRankings]
    /\ pm_ret = <<>>

\* lines 654-660 of pixel_mask
PmWalk ==
    /\ pm_ret = <<>>
    /\ pm_ret' = <<[color_reliability |-> RgbdColorReliability(pm_gauss),
                    threshold |-> RgbdColorThreshold(pm_gauss)]>>
    /\ UNCHANGED pm_gauss
    /\ Rest("pm")

PmNext == PmWalk

InitPM == PmInit /\ Idle("pm")

SpecPM == InitPM /\ [][PmNext]_vars

RECURSIVE PmPrefixWeight(_)
\* the summed weight of the first k components of the ranking
PmPrefixWeight(k) ==
    IF k = 0 THEN 0
    ELSE pm_gauss.weight[pm_gauss.ranking[k - 1]] + PmPrefixWeight(k - 1)

\* the length of the shortest prefix of the ranking whose summed weight is
\* >= reliability_threshold; all components if the total stays below it
PmShortestPrefix ==
    IF \E k \in 0 .. NumberOfGaussians :
          PmPrefixWeight(k) * ReliabilityThresholdDen >= ReliabilityThresholdNum * WeightUnit
    THEN CHOOSE k \in 0 .. NumberOfGaussians :
            /\ PmPrefixWeight(k) * ReliabilityThresholdDen >= ReliabilityThresholdNum * WeightUnit
            /\ \A l \in 0 .. (k - 1) :
                  PmPrefixWeight(l) * ReliabilityThresholdDen
                      < ReliabilityThresholdNum * WeightUnit
    ELSE NumberOfGaussians

(* C27: the color-reliable components of a pixel are exactly the components *)
(* of the shortest prefix of the ranking whose summed weight is >=          *)
(* reliability_threshold (all components if the total stays below it), and  *)
(* each component's weight is added at most once: the accumulated weight    *)
(* is the summed weight of that prefix.                                     *)
C27_ShortestPrefix ==
    pm_ret # <<>> =>
        /\ {i \in Components : pm_ret[1].color_reliability[i] = 1}
              = {pm_gauss.ranking[pos] : pos \in 0 .. (PmShortestPrefix - 1)}
        /\ pm_ret[1].threshold = PmPrefixWeight(PmShortestPrefix)

-----------------------------------------------------------------------------
(* RGBD_MoG over a longer run in which the depth of every pixel is valid    *)
(* in every frame.  The arithmetic of the units stays exact for             *)
(* RoMaxFrames calls.                                                       *)

\* number of set_mask calls of the run
RoMaxFrames == 5

\* frames with valid depth; the grey level of pixel (0, 0) varies
RoFrames == {frame \in MogFrames : frame.depth_im[<<0, 0>>] = 20}

InitRO ==
    /\ \E frame \in RoFrames : RgbdConstruct(frame)
    /\ FastIdle
    /\ mog_calls = 0
    /\ ro_missed = {}
    /\ Idle("ro")

\* RGBD_MoG.set_mask(rgb_im, depth_im) with a valid depth frame
RoSetMask ==
    /\ mog_calls < RoMaxFrames
    /\ \E frame \in RoFrames : RgbdSetMaskCall(frame)
    /\ mog_calls' = mog_calls + 1
    /\ ro_missed' = ro_missed \cup {i \in Components : ~rgbd_matching'[<<0, 0>>][i]}
    /\ UNCHANGED fastVars
    /\ Rest("ro")

RoNext == RoSetMask

SpecRO == InitRO /\ [][RoNext]_vars

(* C28: for a pixel whose depth is valid in every frame, a component that   *)
(* matched in every set_mask call keeps a reliability ratio (numerator of   *)
(* its depth observations divided by the denominator) above                 *)
(* depth_reliability_ro, after any number of calls.                         *)
C28_RatioStaysAboveRo ==
    \A i \in Components :
        (mog_calls > 0 /\ i \notin ro_missed) =>
            rgbd_gaussians[<<0, 0>>].depth_observations[i][1] * RoDen
                > RoNum * rgbd_gaussians[<<0, 0>>].depth_observations[i][2]

-----------------------------------------------------------------------------
(* get_gaussian_params against the perturbations of the coefficients the    *)
(* candidates hold when it is called.                                       *)

\* the step is a call get_gaussian_params(found_functions, t)
GgpCalled(t) ==
    /\ gf_calls' = gf_calls + 1
    /\ gf_found_functions' = GetGaussianParams(gf_found_functions, t, ThresholdSd).found_functions
    /\ gf_ret' # <<>>
    /\ gf_ret'[1].op = "get_gaussian_params"
    /\ gf_ret'[1].value[1] = GetGaussianParams(gf_found_functions, t, ThresholdSd).mean
    /\ gf_ret'[1].value[2]
          = GetGaussianParams(gf_found_functions, t, ThresholdSd).standard_deviation

\* f(p + s, t) and f(p - s, t) of the candidate c, p and s as c holds them
GgpPerturbedUp(c, t) ==
    Polyval([i \in DOMAIN c.function_params |->
                FlAdd(c.function_params[i], c.standard_deviation[i])], t)

GgpPerturbedDown(c, t) ==
    Polyval([i \in DOMAIN c.function_params |->
                FlSub(c.function_params[i], c.standard_deviation[i])], t)

\* max(|f(p + s, t) - f(p, t)|, |f(p - s, t) - f(p, t)|) floored at threshold_sd
GgpWorstCase(c, t, threshold_sd) ==
    NpMaximum(NpMaximum(Abs(FlSub(GgpPerturbedUp(c, t), Polyval(c.function_params, t))),
                        Abs(FlSub(GgpPerturbedDown(c, t), Polyval(c.function_params, t)))),
              threshold_sd)

(* C29: get_gaussian_params returns, for each candidate with coefficients p *)
(* and standard deviations s, the mean f(p, t) and the standard deviation   *)
(* max(|f(p + s, t) - f(p, t)|, |f(p - s, t) - f(p, t)|) floored at         *)
(* threshold_sd, both perturbations being taken of the coefficients the     *)
(* candidate holds at the call; the weights are uniform and sum to 1.       *)
C29_WorstCaseOfBothPerturbations ==
    [][\A t \in GfMoments :
          GgpCalled(t) =>
              /\ gf_ret'[1].value[1]
                    = [f \in DOMAIN gf_found_functions |->
                          Polyval(gf_found_functions[f].function_params, t)]
              /\ gf_ret'[1].value[2]
                    = [f \in DOMAIN gf_found_functions |->
                          GgpWorstCase(gf_found_functions[f], t, ThresholdSd)]
              /\ gf_ret'[1].value[3]
                    = [f \in DOMAIN gf_found_functions |-> <<1, Len(gf_found_functions)>>]]_vars

-----------------------------------------------------------------------------
(* DEVB from its constructor on, with the depth arrays of the caller as     *)
(* objects: own_heap holds the contents of every array the caller supplied, *)
(* __current_depth and __depth_background are references (positions in     *)
(* own_heap), and devb_current_depth and devb_depth_background are the      *)
(* contents of the arrays they refer to.  set_mask is the sweep of          *)
(* set_pixel over the pixels (lines 281-285), so a call of it is a          *)
(* sequence of the set_pixel steps below.                                   *)

\* number of calls of set_images and of set_pixel made on a detector
OwnMaxImages == 1
OwnMaxCalls == 2

\* the frames supplied by the caller: pixel <<0, 0>> varies
OwnColours == {<<0, 0, 0>>, <<80, 80, 80>>}
OwnDepths == {10, 14}
OwnRgbFrames ==
    {[p \in Pixels |-> IF p = <<0, 0>> THEN c ELSE <<0, 0, 0>>] : c \in OwnColours}
OwnDepthFrames ==
    {[p \in Pixels |-> IF p = <<0, 0>> THEN d ELSE 10] : d \in OwnDepths}

\* initial_background (lines 263-278): the first sample is the pixel's own colour,
\* the others are colours of neighbours drawn by get_random_neighbour
InitialBackgrounds(rgb_im) ==
    {b \in [Pixels -> [Samples -> OwnColours]] :
        \A p \in Pixels :
            /\ b[p][1] = rgb_im[p]
            /\ \A k \in Samples \ {1} :
                  \E ni \in Neighbours(p[1], Height), nj \in Neighbours(p[2], Width) :
                      b[p][k] = rgb_im[<<ni, nj>>]}

\* DEVB.__init__(rgb_im, depth_im): lines 247 and 257 store the one array depth_im
OwnInit ==
    /\ devb_current_rgb \in OwnRgbFrames
    /\ own_heap \in {<<d>> : d \in OwnDepthFrames}
    /\ own_supplied = own_heap
    /\ own_current_depth = 1
    /\ own_depth_background = 1
    /\ devb_current_depth = own_heap[own_current_depth]
    /\ devb_depth_background = own_heap[own_depth_background]
    /\ devb_background \in InitialBackgrounds(devb_current_rgb)
    /\ devb_mask = [p \in Pixels |-> Garbage]
    /\ devb_call = <<>>
    /\ own_calls = 0

\* DEVB.set_images(current_rgb, current_depth): the references are rebound
OwnSetImages ==
    /\ Len(own_heap) <= OwnMaxImages
    /\ \E current_rgb \in OwnRgbFrames, current_depth \in OwnDepthFrames :
          /\ devb_current_rgb' = current_rgb
          /\ own_heap' = Append(own_heap, current_depth)
          /\ own_supplied' = Append(own_supplied, current_depth)
          /\ own_current_depth' = Len(own_heap) + 1
          /\ devb_current_depth' = current_depth
    /\ UNCHANGED <<own_depth_background, devb_depth_background, devb_background, devb_mask,
                   devb_call, own_calls>>
    /\ Rest("own")

\* DEVB.set_pixel(i, j): lines 310 and 322 assign into the array __depth_background
\* refers to
OwnSetPixel ==
    /\ own_calls < OwnMaxCalls
    /\ \E p \in Pixels, own \in BOOLEAN, nb \in BOOLEAN :
          \E own_slot \in IF own THEN Samples ELSE {1},
             nb_slot \in IF nb THEN Samples ELSE {1},
             ni \in IF nb THEN Neighbours(p[1], Height) ELSE {p[1]},
             nj \in IF nb THEN Neighbours(p[2], Width) ELSE {p[2]} :
              DevbSetPixelCall(p, own, own_slot, nb, <<ni, nj>>, nb_slot)
    /\ own_heap' = [own_heap EXCEPT ![own_depth_background] = devb_depth_background']
    /\ own_calls' = own_calls + 1
    /\ UNCHANGED <<own_supplied, own_current_depth, own_depth_background>>
    /\ Rest("own")

OwnNext == OwnSetImages \/ OwnSetPixel

InitOWN == OwnInit /\ Idle("own")

SpecOWN == InitOWN /\ [][OwnNext]_vars

(* C30: the depth background is owned by the detector alone: no sequence of *)
(* set_images / set_pixel / set_mask calls modifies a depth frame supplied  *)
(* by the caller (the depth_im of the constructor or a current_depth of     *)
(* set_images), and the depth background is an array distinct from the      *)
(* current depth frame.                                                     *)
C30_DepthBackgroundOwned ==
    /\ own_heap = own_supplied
    /\ own_depth_background # own_current_depth

====
